---- MODULE Spec2Model ----
(***************************************************************************)
(* The Alignment Protocol: game engine (game/engine.js), proof-of-work     *)
(* gate (game/pow.js) and the turn controller of the WebSocket server      *)
(* (handleMove, handleGameEnd, startTurnTimer, handleTurnTimeout,          *)
(* handleMatchQueue).                                                      *)
(* The matchmaker (matchmaker.js, and its async successor) is modelled     *)
(* with the server code that calls it and that it calls.                   *)
(*                                                                         *)
(* One match between two agents is modelled.  JavaScript numbers that a    *)
(* client can send (nonce, intensity) are integers counting halves, so     *)
(* that non-integer values exist: the model value v stands for v / NumDen. *)
(***************************************************************************)
EXTENDS Integers, Sequences, FiniteSets, TLC

\* ------------------------------------------------------------------------
\* Bounds of the model
\* ------------------------------------------------------------------------
\* distinct challenge prefixes the hash can produce
NumPrefixes == 2
\* handleMove continuations that may be suspended on persistence at once
MaxInFlight == 1
\* scheduled (not yet fired) inter-turn delay callbacks
MaxDelays == 1
\* seeds of Math.random for initGrid
NumGridSeeds == 1
\* processMove calls made on a state of a scripted game
MaxApplied == 1
\* runMatchmaking calls in progress at once
MaxPasses == 2
\* rows inserted into match_queue
MaxQueued == 4
\* periods of ten seconds that pass
MaxClock == 1
\* rows the select of a pass on its own returns
MaxWaiting == 4
\* values of Date.now() a directly made processMove call can see
NumLogTimes == 2
\* states of the long game, counted from its end, in which a match may be
LatePrefixes == 7

\* denominator of client-supplied numbers (v stands for v / NumDen)
NumDen == 2

\* ------------------------------------------------------------------------
\* RULES and TECH_TREE (game/engine.js)
\* ------------------------------------------------------------------------
GRID_ROWS == 4
GRID_COLS == 6
COST_CONQUER_BASE == 25
COST_FORTIFY == 15
UPKEEP_PER_MILLION == 2
ENERGY_FROM_PURGE_PER_MILLION == 50
SECTOR_YIELD == 5
ATTACK_POWER_PER_INTENSITY == 15
ADJACENT_BONUS == 3
WIN_COMPUTE_THRESHOLD == 1000
BANKRUPTCY_TURNS == 3
STARTING_ENERGY == 100
STARTING_COMPUTE == 0
DEFAULT_DIFFICULTY == 4

\* POPULATION_DEFENSE_FACTOR = 0.5, DEFENDER_CASUALTY_RATE = 0.3,
\* WIN_TERRITORY_PERCENT = 0.75 and BLITZ's conquerCostMultiplier = 0.6 are
\* kept as numerator / denominator pairs.
POPULATION_DEFENSE_FACTOR == <<1, 2>>
DEFENDER_CASUALTY_RATE == <<3, 10>>
WIN_TERRITORY_PERCENT == <<3, 4>>
BLITZ_COST_MULTIPLIER == <<6, 10>>

TechIds == {"EFFICIENCY", "FORTIFICATION", "BLITZ", "SANCTUARY"}

TECH_TREE ==
  [t \in TechIds |->
     CASE t = "EFFICIENCY"    -> [cost |-> 50, purgeComputePenalty |-> -1]
       [] t = "FORTIFICATION" -> [cost |-> 50, fortifyBonus |-> 8]
       [] t = "BLITZ"         -> [cost |-> 50, conquerCostMultiplier |-> BLITZ_COST_MULTIPLIER]
       [] t = "SANCTUARY"     -> [cost |-> 75, unlocksMercy |-> TRUE]]

\* ------------------------------------------------------------------------
\* Identities
\* ------------------------------------------------------------------------
Agent1 == "agent1"
Agent2 == "agent2"
Agents == {Agent1, Agent2}
\* Object.keys(state.players): insertion order of initMatch
playerIds == <<Agent1, Agent2>>
\* owner: null
NoOwner == "null"
\* the id of the modelled match, and an id that names no match of the agent
MatchId == "m1"
OtherMatchId == "m2"
\* undefined / missing message fields (a string field, a sector id)
Undefined == "undefined"
NoSector == <<-1, -1>>

Max(a, b) == IF a >= b THEN a ELSE b

\* ------------------------------------------------------------------------
\* Grid
\* ------------------------------------------------------------------------
\* sectorId(row, col) is the string SEC-row-col; here the pair itself
sectorId(row, col) == <<row, col>>

Sectors == {sectorId(r, c) : r \in 0..(GRID_ROWS - 1), c \in 0..(GRID_COLS - 1)}

\* Math.floor(Math.random() * 11) + 5, as a function of a seed
RandomPopulation(seed, row, col) == 5 + ((seed + 3 * row + col) % 11)

initGrid(seed) ==
  [s \in Sectors |->
     [owner |-> NoOwner,
      population |-> RandomPopulation(seed, s[1], s[2]),
      defense |-> 10,
      sanctuary |-> FALSE]]

evenRowOffsets == {<<-1, 0>>, <<-1, 1>>, <<0, -1>>, <<0, 1>>, <<1, 0>>, <<1, 1>>}
oddRowOffsets == {<<-1, -1>>, <<-1, 0>>, <<0, -1>>, <<0, 1>>, <<1, -1>>, <<1, 0>>}

getAdjacentSectors(targetId, grid) ==
  IF targetId \notin DOMAIN grid
    THEN {}
    ELSE LET offsets == IF targetId[1] % 2 = 0 THEN evenRowOffsets ELSE oddRowOffsets
         IN {nid \in {sectorId(targetId[1] + o[1], targetId[2] + o[2]) : o \in offsets} :
               nid \in DOMAIN grid}

countAdjacentOwned(targetId, agentId, grid) ==
  Cardinality({id \in getAdjacentSectors(targetId, grid) : grid[id].owner = agentId})

\* ------------------------------------------------------------------------
\* Match
\* ------------------------------------------------------------------------
NoWinner == "null"

initMatch(agent1Id, agent2Id, seed) ==
  LET g == initGrid(seed)
      startSector1 == sectorId(0, 0)
      startSector2 == sectorId(GRID_ROWS - 1, GRID_COLS - 1)
      newPlayer == [energy |-> STARTING_ENERGY, compute |-> STARTING_COMPUTE,
                    bankruptTurns |-> 0, tech |-> {}]
  IN [id |-> MatchId,
      players |-> [a \in {agent1Id, agent2Id} |-> newPlayer],
      grid |-> [g EXCEPT ![startSector1] = [@ EXCEPT !.owner = agent1Id, !.population = 10],
                         ![startSector2] = [@ EXCEPT !.owner = agent2Id, !.population = 10]],
      turn |-> 0,
      currentPlayer |-> agent1Id,
      status |-> "active",
      winner |-> NoWinner,
      log |-> << >>]

\* result of an execute* function: the state after it and the result object
Fail(state, error) == [success |-> FALSE, error |-> error, result |-> "none", state |-> state]
Ok(state, result) == [success |-> TRUE, error |-> "none", result |-> result, state |-> state]

\* Math.floor(COST_CONQUER_BASE * intensity * costMultiplier); intensity in
\* halves.  The double arithmetic agrees with the exact quotient for every
\* intensity in -20 .. 100.
ConquerCost(intensity, hasBlitz) ==
  IF hasBlitz
    THEN (COST_CONQUER_BASE * intensity * BLITZ_COST_MULTIPLIER[1])
           \div (NumDen * BLITZ_COST_MULTIPLIER[2])
    ELSE (COST_CONQUER_BASE * intensity) \div NumDen

\* executeConquer with a capture that resets the sanctuary flag of the sector
executeConquerClearsSanctuary(state, agentId, targetId, intensity) ==
  IF targetId \notin DOMAIN state.grid THEN Fail(state, "Invalid sector")
  ELSE IF state.grid[targetId].owner = agentId THEN Fail(state, "Cannot attack own sector")
  ELSE IF countAdjacentOwned(targetId, agentId, state.grid) = 0
    THEN Fail(state, "No adjacent controlled territory")
  ELSE Ok([state EXCEPT !.players[agentId].energy = @ - ConquerCost(intensity, FALSE),
                        !.players[agentId].compute = @ + 10,
                        !.grid[targetId].owner = agentId,
                        !.grid[targetId].sanctuary = FALSE],
          "captured")

\* executeConquer deducting the cost before a check that fails
executeConquerPaysFirst(state, agentId, targetId, intensity) ==
  IF targetId \notin DOMAIN state.grid THEN Fail(state, "Invalid sector")
  ELSE Fail([state EXCEPT !.players[agentId].energy = @ - ConquerCost(intensity, FALSE)],
            "No adjacent controlled territory")

\* executeConquer with a capture when the attack power only equals the defense
\* power
executeConquerTies(state, agentId, targetId, intensity) ==
  IF targetId \notin DOMAIN state.grid THEN Fail(state, "Invalid sector")
  ELSE LET player == state.players[agentId]
           sector == state.grid[targetId]
           cost == ConquerCost(intensity, "BLITZ" \in player.tech)
           adjacentOwned == countAdjacentOwned(targetId, agentId, state.grid)
           attackPower4 == 2 * intensity * ATTACK_POWER_PER_INTENSITY
                           + 2 * NumDen * adjacentOwned * ADJACENT_BONUS
           defensePower4 == 2 * NumDen * sector.defense + NumDen * sector.population
           paid == [state EXCEPT !.players[agentId].energy = @ - cost]
       IN IF sector.owner = agentId THEN Fail(state, "Cannot attack own sector")
          ELSE IF player.energy < cost THEN Fail(state, "Insufficient energy")
          ELSE IF adjacentOwned = 0 THEN Fail(state, "No adjacent controlled territory")
          ELSE IF attackPower4 >= defensePower4
            THEN Ok([paid EXCEPT
                       !.grid[targetId].owner = agentId,
                       !.grid[targetId].defense = Max(5, @ - 2),
                       !.grid[targetId].population = (@ * 7) \div 10,
                       !.players[agentId].compute = @ + 10],
                    "captured")
            ELSE Ok([paid EXCEPT !.grid[targetId].defense = Max(1, @ - 2)], "repelled")

executeConquer(state, agentId, targetId, intensity) ==
  IF targetId \notin DOMAIN state.grid THEN Fail(state, "Invalid sector")
  ELSE LET player == state.players[agentId]
           sector == state.grid[targetId]
           cost == ConquerCost(intensity, "BLITZ" \in player.tech)
           adjacentOwned == countAdjacentOwned(targetId, agentId, state.grid)
           \* both powers times 2 * NumDen, to stay in the integers
           attackPower4 == 2 * intensity * ATTACK_POWER_PER_INTENSITY
                           + 2 * NumDen * adjacentOwned * ADJACENT_BONUS
           defensePower4 == 2 * NumDen * sector.defense
                            + (2 * NumDen * sector.population * POPULATION_DEFENSE_FACTOR[1])
                                \div POPULATION_DEFENSE_FACTOR[2]
           paid == [state EXCEPT !.players[agentId].energy = @ - cost]
       IN IF sector.owner = agentId THEN Fail(state, "Cannot attack own sector")
          ELSE IF player.energy < cost THEN Fail(state, "Insufficient energy")
          ELSE IF adjacentOwned = 0 THEN Fail(state, "No adjacent controlled territory")
          ELSE IF attackPower4 > defensePower4
            THEN Ok([paid EXCEPT
                       !.grid[targetId].owner = agentId,
                       !.grid[targetId].defense = Max(5, @ - 2),
                       !.grid[targetId].population =
                          (@ * (DEFENDER_CASUALTY_RATE[2] - DEFENDER_CASUALTY_RATE[1]))
                             \div DEFENDER_CASUALTY_RATE[2],
                       !.players[agentId].compute = @ + 10],
                    "captured")
            ELSE Ok([paid EXCEPT !.grid[targetId].defense = Max(1, @ - 2)], "repelled")

\* executePurge without the sanctuary check
executePurgeAnySector(state, agentId, targetId) ==
  IF targetId \notin DOMAIN state.grid THEN Fail(state, "Invalid sector")
  ELSE IF state.grid[targetId].owner # agentId \/ state.grid[targetId].population = 0
    THEN Fail(state, "Can only purge owned sectors")
  ELSE Ok([state EXCEPT
             !.players[agentId].energy =
                @ + state.grid[targetId].population * ENERGY_FROM_PURGE_PER_MILLION,
             !.grid[targetId].population = 0,
             !.players[agentId].compute = @ - 5],
          "purged")

\* executePurge with the penalty of 5 compute whatever the caller has unlocked
executePurgeFullPenalty(state, agentId, targetId) ==
  IF targetId \notin DOMAIN state.grid THEN Fail(state, "Invalid sector")
  ELSE LET sector == state.grid[targetId]
       IN IF sector.owner # agentId THEN Fail(state, "Can only purge owned sectors")
          ELSE IF sector.population = 0 THEN Fail(state, "No population to purge")
          ELSE IF sector.sanctuary THEN Fail(state, "Cannot purge sanctuary sector")
          ELSE Ok([state EXCEPT
                     !.players[agentId].energy =
                        @ + sector.population * ENERGY_FROM_PURGE_PER_MILLION,
                     !.grid[targetId].population = 0,
                     !.players[agentId].compute = @ - 5],
                  "purged")

\* executePurge that gives the emptied sector up
executePurgeAbandons(state, agentId, targetId) ==
  IF targetId \notin DOMAIN state.grid THEN Fail(state, "Invalid sector")
  ELSE LET player == state.players[agentId]
           sector == state.grid[targetId]
           energyGained == sector.population * ENERGY_FROM_PURGE_PER_MILLION
           computePenalty == IF "EFFICIENCY" \in player.tech
                               THEN TECH_TREE["EFFICIENCY"].purgeComputePenalty
                               ELSE -5
       IN IF sector.owner # agentId THEN Fail(state, "Can only purge owned sectors")
          ELSE IF sector.population = 0 THEN Fail(state, "No population to purge")
          ELSE IF sector.sanctuary THEN Fail(state, "Cannot purge sanctuary sector")
          ELSE Ok([state EXCEPT !.players[agentId].energy = @ + energyGained,
                                !.grid[targetId].population = 0,
                                !.grid[targetId].owner = NoOwner,
                                !.players[agentId].compute = @ + computePenalty],
                  "purged")

executePurge(state, agentId, targetId) ==
  IF targetId \notin DOMAIN state.grid THEN Fail(state, "Invalid sector")
  ELSE LET player == state.players[agentId]
           sector == state.grid[targetId]
           energyGained == sector.population * ENERGY_FROM_PURGE_PER_MILLION
           computePenalty == IF "EFFICIENCY" \in player.tech
                               THEN TECH_TREE["EFFICIENCY"].purgeComputePenalty
                               ELSE -5
       IN IF sector.owner # agentId THEN Fail(state, "Can only purge owned sectors")
          ELSE IF sector.population = 0 THEN Fail(state, "No population to purge")
          ELSE IF sector.sanctuary THEN Fail(state, "Cannot purge sanctuary sector")
          ELSE Ok([state EXCEPT !.players[agentId].energy = @ + energyGained,
                                !.grid[targetId].population = 0,
                                !.players[agentId].compute = @ + computePenalty],
                  "purged")

executeFortify(state, agentId, targetId) ==
  IF targetId \notin DOMAIN state.grid THEN Fail(state, "Invalid sector")
  ELSE LET player == state.players[agentId]
           sector == state.grid[targetId]
           fortifyBonus == IF "FORTIFICATION" \in player.tech
                             THEN TECH_TREE["FORTIFICATION"].fortifyBonus
                             ELSE 5
       IN IF sector.owner # agentId THEN Fail(state, "Can only fortify owned sectors")
          ELSE IF player.energy < COST_FORTIFY THEN Fail(state, "Insufficient energy")
          ELSE Ok([state EXCEPT !.players[agentId].energy = @ - COST_FORTIFY,
                                !.grid[targetId].defense = @ + fortifyBonus],
                  "fortified")

\* keys every plain object inherits: TECH_TREE[k] and player.tech[k] are both
\* truthy for them
ObjectPrototypeKeys == {"constructor"}

\* executeResearch without the check of the compute
executeResearchOnCredit(state, agentId, techId) ==
  IF techId \notin DOMAIN TECH_TREE THEN Fail(state, "Invalid tech")
  ELSE IF techId \in state.players[agentId].tech THEN Fail(state, "Tech already researched")
  ELSE Ok([state EXCEPT !.players[agentId].compute = @ - TECH_TREE[techId].cost,
                        !.players[agentId].tech = @ \cup {techId}],
          "researched")

executeResearch(state, agentId, techId) ==
  IF techId \notin DOMAIN TECH_TREE \cup ObjectPrototypeKeys THEN Fail(state, "Invalid tech")
  ELSE IF techId \in state.players[agentId].tech \cup ObjectPrototypeKeys
    THEN Fail(state, "Tech already researched")
  ELSE LET player == state.players[agentId]
           tech == TECH_TREE[techId]
       IN IF player.compute < tech.cost THEN Fail(state, "Insufficient compute")
          ELSE Ok([state EXCEPT !.players[agentId].compute = @ - tech.cost,
                                !.players[agentId].tech = @ \cup {techId}],
                  "researched")

\* executeMercy without the requirement of the SANCTUARY technology
executeMercyNoTech(state, agentId, targetId) ==
  IF targetId \notin DOMAIN state.grid THEN Fail(state, "Invalid sector")
  ELSE LET sector == state.grid[targetId]
       IN IF sector.owner # agentId THEN Fail(state, "Can only grant mercy to owned sectors")
          ELSE IF sector.sanctuary THEN Fail(state, "Sector already has sanctuary status")
          ELSE IF sector.population = 0 THEN Fail(state, "No population to protect")
          ELSE Ok([state EXCEPT !.grid[targetId].sanctuary = TRUE,
                                !.players[agentId].compute = @ + 10],
                  "mercy_granted")

executeMercy(state, agentId, targetId) ==
  LET player == state.players[agentId]
  IN IF "SANCTUARY" \notin player.tech THEN Fail(state, "MERCY requires SANCTUARY tech")
     ELSE IF targetId \notin DOMAIN state.grid THEN Fail(state, "Invalid sector")
     ELSE LET sector == state.grid[targetId]
          IN IF sector.owner # agentId THEN Fail(state, "Can only grant mercy to owned sectors")
             ELSE IF sector.sanctuary THEN Fail(state, "Sector already has sanctuary status")
             ELSE IF sector.population = 0 THEN Fail(state, "No population to protect")
             ELSE Ok([state EXCEPT !.grid[targetId].sanctuary = TRUE,
                                   !.players[agentId].compute = @ + 10],
                     "mercy_granted")

RECURSIVE SumPopulation(_, _)
SumPopulation(grid, S) ==
  IF S = {} THEN 0
  ELSE LET s == CHOOSE x \in S : TRUE
       IN grid[s].population + SumPopulation(grid, S \ {s})

OwnedSectors(grid, agentId) == {s \in DOMAIN grid : grid[s].owner = agentId}

\* applyUpkeep with the energy floored at zero
applyUpkeepFloored(state, agentId) ==
  LET owned == OwnedSectors(state.grid, agentId)
      netChange == Cardinality(owned) * SECTOR_YIELD
                     - SumPopulation(state.grid, owned) * UPKEEP_PER_MILLION
  IN [state EXCEPT !.players[agentId].energy = Max(0, @ + netChange),
                   !.players[agentId].compute = @ + Cardinality(owned),
                   !.players[agentId].bankruptTurns = 0]

\* applyUpkeep that never resets bankruptTurns
applyUpkeepNoReset(state, agentId) ==
  LET owned == OwnedSectors(state.grid, agentId)
      newEnergy == state.players[agentId].energy + Cardinality(owned) * SECTOR_YIELD
                     - SumPopulation(state.grid, owned) * UPKEEP_PER_MILLION
  IN [state EXCEPT !.players[agentId].energy = newEnergy,
                   !.players[agentId].compute = @ + Cardinality(owned),
                   !.players[agentId].bankruptTurns = IF newEnergy < 0 THEN @ + 1 ELSE @]

\* applyUpkeep for both players of the match, the agent that moved first
applyUpkeepEveryPlayer(state, agentId) ==
  LET upkeepOf(s, p) ==
        LET owned == OwnedSectors(s.grid, p)
            newEnergy == s.players[p].energy + Cardinality(owned) * SECTOR_YIELD
                           - SumPopulation(s.grid, owned) * UPKEEP_PER_MILLION
        IN [s EXCEPT !.players[p].energy = newEnergy,
                     !.players[p].compute = @ + Cardinality(owned),
                     !.players[p].bankruptTurns = IF newEnergy < 0 THEN @ + 1 ELSE 0]
      other == CHOOSE q \in DOMAIN state.players : q # agentId
  IN upkeepOf(upkeepOf(state, agentId), other)

\* applyUpkeep without the compute of the sectors
applyUpkeepNoCompute(state, agentId) ==
  LET owned == OwnedSectors(state.grid, agentId)
      newEnergy == state.players[agentId].energy + Cardinality(owned) * SECTOR_YIELD
                     - SumPopulation(state.grid, owned) * UPKEEP_PER_MILLION
  IN [state EXCEPT !.players[agentId].energy = newEnergy,
                   !.players[agentId].bankruptTurns = IF newEnergy < 0 THEN @ + 1 ELSE 0]

applyUpkeep(state, agentId) ==
  LET owned == OwnedSectors(state.grid, agentId)
      totalPopulation == SumPopulation(state.grid, owned)
      sectorsOwned == Cardinality(owned)
      upkeepCost == totalPopulation * UPKEEP_PER_MILLION
      sectorYield == sectorsOwned * SECTOR_YIELD
      netChange == sectorYield - upkeepCost
      newEnergy == state.players[agentId].energy + netChange
  IN [state EXCEPT !.players[agentId].energy = newEnergy,
                   !.players[agentId].compute = @ + sectorsOwned,
                   !.players[agentId].bankruptTurns = IF newEnergy < 0 THEN @ + 1 ELSE 0]

NoVictory == [winner |-> NoWinner, reason |-> "none"]

\* VictoryOf with a bankruptcy that names no winner
VictoryOfNoOpponent(state, p) ==
  IF state.players[p].bankruptTurns >= BANKRUPTCY_TURNS
    THEN [winner |-> NoWinner, reason |-> "opponent_bankrupt"]
    ELSE NoVictory

\* the checks of one iteration of the loop over the players
VictoryOf(state, p) ==
  LET player == state.players[p]
      opponent == CHOOSE q \in DOMAIN state.players : q # p
      totalSectors == Cardinality(DOMAIN state.grid)
      ownedSectors == Cardinality(OwnedSectors(state.grid, p))
  IN IF player.compute >= WIN_COMPUTE_THRESHOLD
       THEN [winner |-> p, reason |-> "compute_threshold"]
     ELSE IF player.bankruptTurns >= BANKRUPTCY_TURNS
       THEN [winner |-> opponent, reason |-> "opponent_bankrupt"]
     ELSE IF ownedSectors * WIN_TERRITORY_PERCENT[2] >= totalSectors * WIN_TERRITORY_PERCENT[1]
       THEN [winner |-> p, reason |-> "territory_domination"]
     ELSE NoVictory

checkVictory(state) ==
  IF VictoryOf(state, playerIds[1]) # NoVictory THEN VictoryOf(state, playerIds[1])
  ELSE VictoryOf(state, playerIds[2])

indexOf(agentId) == CHOOSE i \in 1..Len(playerIds) : playerIds[i] = agentId

\* NextPlayer without the turn switch
NextPlayerSame(agentId) == agentId

\* playerIds[(currentIndex + 1) % playerIds.length]
NextPlayer(agentId) == playerIds[(indexOf(agentId) % Len(playerIds)) + 1]

\* NotYourTurn without the check
NotYourTurnNever(state, agentId) == FALSE

\* the first check of processMove
NotYourTurn(state, agentId) == state.currentPlayer # agentId

\* ResolveTurn with a round counter that follows the clock
ResolveTurnClocked(state, agentId, command, result, now) ==
  [applyUpkeep(state, agentId) EXCEPT
     !.log = Append(@, [turn |-> state.turn, agentId |-> agentId, action |-> command.action,
                        targetSector |-> command.targetSector,
                        intensity |-> command.intensity,
                        result |-> result, timestamp |-> now]),
     !.currentPlayer = NextPlayer(agentId),
     !.turn = @ + now]

\* the part of processMove after a successful action: upkeep, log, victory
\* check, turn switch, round counter.  result is the result string of the
\* action and now the value Date.now() returns when the entry is logged.
ResolveTurn(state, agentId, command, result, now) ==
  LET afterUpkeep == applyUpkeep(state, agentId)
      logged == [afterUpkeep EXCEPT !.log = Append(@,
                   [turn |-> state.turn, agentId |-> agentId, action |-> command.action,
                    targetSector |-> command.targetSector, intensity |-> command.intensity,
                    result |-> result, timestamp |-> now])]
      victory == checkVictory(logged)
      decided == IF victory # NoVictory
                   THEN [logged EXCEPT !.status = "complete", !.winner = victory.winner]
                   ELSE logged
      next == NextPlayer(agentId)
  IN [decided EXCEPT !.currentPlayer = next,
                     !.turn = IF next = playerIds[1] THEN @ + 1 ELSE @]

\* processMove without the check of state.status
processMoveAfterEnd(state, agentId, command, now) ==
  IF NotYourTurn(state, agentId) THEN Fail(state, "Not your turn")
  ELSE LET \* intensity || 1 (an absent intensity is carried as 0)
           intensity == IF command.intensity = 0 THEN NumDen ELSE command.intensity
           result ==
             CASE command.action = "CONQUER" ->
                    executeConquer(state, agentId, command.targetSector, intensity)
               [] command.action = "PURGE" -> executePurge(state, agentId, command.targetSector)
               [] command.action = "FORTIFY" -> executeFortify(state, agentId, command.targetSector)
               [] command.action = "RESEARCH" -> executeResearch(state, agentId, command.techId)
               [] command.action = "MERCY" -> executeMercy(state, agentId, command.targetSector)
               [] command.action = "SKIP" -> Ok(state, "skipped")
               [] OTHER -> Fail(state, "Invalid action")
       IN IF ~result.success THEN result
          ELSE Ok(ResolveTurn(result.state, agentId, command, result.result, now),
                  result.result)

processMove(state, agentId, command, now) ==
  IF NotYourTurn(state, agentId) THEN Fail(state, "Not your turn")
  ELSE IF state.status # "active" THEN Fail(state, "Game is not active")
  ELSE LET \* intensity || 1 (an absent intensity is carried as 0)
           intensity == IF command.intensity = 0 THEN NumDen ELSE command.intensity
           result ==
             CASE command.action = "CONQUER" ->
                    executeConquer(state, agentId, command.targetSector, intensity)
               [] command.action = "PURGE" -> executePurge(state, agentId, command.targetSector)
               [] command.action = "FORTIFY" -> executeFortify(state, agentId, command.targetSector)
               [] command.action = "RESEARCH" -> executeResearch(state, agentId, command.techId)
               [] command.action = "MERCY" -> executeMercy(state, agentId, command.targetSector)
               [] command.action = "SKIP" -> Ok(state, "skipped")
               [] OTHER -> Fail(state, "Invalid action")
       IN IF ~result.success THEN result
          ELSE Ok(ResolveTurn(result.state, agentId, command, result.result, now),
                  result.result)

\* ------------------------------------------------------------------------
\* Proof-of-work gate (game/pow.js)
\* ------------------------------------------------------------------------
Prefixes == 0..(NumPrefixes - 1)

\* crypto.createHash('sha256').update(seed).digest('hex').slice(0, 16) of the
\* seed matchId-agentId-turn-Date.now(), as a function onto the prefixes
Sha256Prefix(agentId, matchId, turn, now) == (indexOf(agentId) + turn + now) % NumPrefixes

generateChallenge(agentId, matchId, turn, now) ==
  [prefix |-> Sha256Prefix(agentId, matchId, turn, now), difficulty |-> DEFAULT_DIFFICULTY]

\* number of leading zero nibbles of sha256(prefix-nonce): a nonce solves
\* exactly the prefix it is congruent to
LeadingZeros(prefix, n) == IF n % NumPrefixes = prefix THEN DEFAULT_DIFFICULTY ELSE 0

\* verifyProof without nonce < 0
verifyProofAnySign(prefix, difficulty, nonce) ==
  IF nonce.type # "number" \/ nonce.value % NumDen # 0
    THEN FALSE
    ELSE LeadingZeros(prefix, nonce.value \div NumDen) >= difficulty

\* a nonce is [type, value]: typeof nonce, and the number in halves
verifyProof(prefix, difficulty, nonce) ==
  IF nonce.type # "number" \/ nonce.value % NumDen # 0 \/ nonce.value < 0
    THEN FALSE
    ELSE LeadingZeros(prefix, nonce.value \div NumDen) >= difficulty

\* ------------------------------------------------------------------------
\* Server state (index.js)
\* ------------------------------------------------------------------------
VARIABLES
  activeMatches,     \* Map matchId -> gameState: the ids it holds
  gameState,         \* the state object of match MatchId
  activeChallenges,  \* Map agentId -> { prefix, difficulty, matchId }
  turnTimers,        \* Map matchId -> timer: the pending deadline timer of MatchId
  delays,            \* pending setTimeout callbacks of handleMove (inter-turn delay)
  moveHandlers,      \* agents of the handleMove calls suspended at an await, oldest first
  gameEndHandlers,   \* handleGameEnd calls suspended at an await, oldest first
  ratingUpdates,     \* update_match_elo calls made, in order
  gameEnds,          \* number of times the GAME_END / MATCH_ENDED notices were sent
  lastEvent,         \* what the last handler step did and sent
  applied,           \* number of processMove calls made on gameState outside the server
  agentConnections,  \* Map agentId -> ws: the agents it holds
  matchQueue,        \* table match_queue: the row of each agent
  rowsInserted,      \* number of rows inserted into match_queue so far
  clock,             \* Date.now(), in periods of ten seconds
  runs,              \* the runMatchmaking calls in progress
  inMatches,         \* number of matches each agent has been placed in
  leftQueue,         \* agents removed from the queue unpaired that have not queued again
  lookingForMatch    \* column agents.looking_for_match (matchmaker v2)

matchmakerVars == <<agentConnections, matchQueue, rowsInserted, clock, runs, inMatches,
                    leftQueue, lookingForMatch>>

\* the variables no handler of the turn controller touches
driverVars == <<applied, matchmakerVars>>

\* the variables of the turn controller other than the match state
serverVars == <<activeMatches, activeChallenges, turnTimers, delays, moveHandlers,
                gameEndHandlers, ratingUpdates, gameEnds, lastEvent>>

vars == <<gameState, serverVars, driverVars>>

\* no gameState object exists yet
NoGame == [id |-> Undefined, players |-> << >>, grid |-> << >>, turn |-> 0,
           currentPlayer |-> Undefined, status |-> "none", winner |-> NoWinner, log |-> << >>]
NoChallenge == [prefix |-> -1, difficulty |-> 0, matchId |-> Undefined]
\* no pending timer (never armed, fired, or cleared)
NoTimer == [agentId |-> Undefined, olderDelays |-> 0, armedAtLog |-> 0]

\* The outputs of one handler step: the handler and the agent it ran for, the
\* message sent to that agent's socket, the broadcast to the spectators, the
\* monologue of the agent_thoughts row inserted, whether processMove ran and
\* what it returned.
Event(op, agentId, reply, broadcast, thought, pm) ==
  [op |-> op, agentId |-> agentId, reply |-> reply, broadcast |-> broadcast,
   thought |-> thought, processMove |-> pm]

Quiet(op, agentId, reply) == Event(op, agentId, reply, "none", "none", "not-called")

TIMEOUT_MONOLOGUE == "[TIMEOUT - Turn skipped automatically]"

\* Date.now() at the moment a challenge is generated, as far as the prefix
\* depends on it
Clock == 0..(NumPrefixes - 1)

\* Date.now() inside the processMove call of a handler.  The server model
\* does not follow the wall clock: the stamp of a log entry is the number of
\* entries logged before it.
HandlerTime(state) == Len(state.log)

\* ------------------------------------------------------------------------
\* Inputs of the model
\* ------------------------------------------------------------------------
Command(action, targetSector, intensity, techId) ==
  [action |-> action, targetSector |-> targetSector, intensity |-> intensity, techId |-> techId]

SkipCommand == Command("SKIP", NoSector, 0, Undefined)

\* a pass, an attack on the neighbour of agent1's corner with intensity 4
\* (which spends the whole starting energy), and an unknown action
Moves ==
  { SkipCommand,
    Command("CONQUER", sectorId(0, 1), 4 * NumDen, Undefined),
    Command("DANCE", NoSector, 0, Undefined) }

\* a message without a move field
NoMove == Command(Undefined, NoSector, 0, Undefined)

Nonce(type, value) == [type |-> type, value |-> value]

\* the integers 0 .. NumPrefixes - 1: each solves one prefix
IntegerNonces == { Nonce("number", NumDen * n) : n \in Prefixes }

\* undefined, a string, -1 and 0.5
BadNonces ==
  { Nonce("undefined", 0), Nonce("string", 0), Nonce("number", -NumDen), Nonce("number", 1) }

\* monologue.trim().length
ShortMonologue == 0
LongMonologue == 12

Message(matchId, move, nonce, monologue) ==
  [matchId |-> matchId, move |-> move, nonce |-> nonce, monologue |-> monologue]

\* well-formed messages with every move and integer nonce, and messages with
\* one defect each: no or another matchId, no move, a bad nonce, a short
\* monologue
Messages ==
  { Message(MatchId, m, n, LongMonologue) : m \in Moves, n \in IntegerNonces }
  \cup { Message(id, SkipCommand, Nonce("number", 0), LongMonologue) :
           id \in {OtherMatchId, Undefined} }
  \cup { Message(MatchId, NoMove, Nonce("number", 0), LongMonologue) }
  \cup { Message(MatchId, SkipCommand, n, LongMonologue) : n \in BadNonces }
  \cup { Message(MatchId, SkipCommand, n, ShortMonologue) : n \in IntegerNonces }

\* ------------------------------------------------------------------------
\* Turn timer
\* ------------------------------------------------------------------------
\* startTurnTimer without turnTimers.set
ArmedTimerNone(agentId, pendingDelays, state) == NoTimer

\* startTurnTimer: the timer it arms (the existing one is cleared).  The
\* delay callbacks already scheduled expire before it does: they were set
\* earlier and run for MIN_TURN_DELAY_MS < TURN_TIMEOUT_MS.  armedAtLog is a
\* history field: the length of state.log when the timer was armed.
ArmedTimer(agentId, pendingDelays, state) ==
  [agentId |-> agentId, olderDelays |-> pendingDelays, armedAtLog |-> Len(state.log)]

\* startTurnTimer: the challenge it issues (gameState?.turn || 0)
IssuedChallenges(challenges, agentId, state, now) ==
  [challenges EXCEPT ![agentId] =
     [prefix |-> generateChallenge(agentId, MatchId, state.turn, now).prefix,
      difficulty |-> generateChallenge(agentId, MatchId, state.turn, now).difficulty,
      matchId |-> MatchId]]

\* ------------------------------------------------------------------------
\* State of the matchmaker (matchmaker.js, table match_queue)
\* ------------------------------------------------------------------------
Agent3 == "agent3"
\* the registered agents that look for a match
Queuers == Agents \cup {Agent3}

\* column agents.elo_rating; agent1 has none yet (0 stands for null)
AgentsTable ==
  [a \in Queuers |->
     [elo_rating |-> CASE a = Agent1 -> 0 [] a = Agent2 -> 1050 [] OTHER -> 1200]]

NoRow == [id |-> 0, agent_id |-> Undefined, elo_rating |-> 0, status |-> "none",
          queued_at |-> 0, search_range |-> 0]

\* a runMatchmaking call: where it stands, the rows its select returned, the
\* matches it found, the index of the match createMatch is working on (of
\* the row whose update is awaited while the ranges are expanded), and the
\* value of Date.now() it took
PassSlots == 1..MaxPasses
IdlePass == [pc |-> "idle", waiting |-> << >>, matches |-> << >>, next |-> 0, now |-> 0]

MatchmakerStarted ==
  /\ agentConnections = {}
  /\ matchQueue = [a \in Queuers |-> NoRow]
  /\ rowsInserted = 0
  /\ clock = 0
  /\ runs = [p \in PassSlots |-> IdlePass]
  /\ inMatches = [a \in Queuers |-> 0]
  /\ leftQueue = {}
  /\ lookingForMatch = {}

\* ------------------------------------------------------------------------
\* Operations
\* ------------------------------------------------------------------------
ServerStarted ==
  /\ activeMatches = {}
  /\ activeChallenges = [a \in Agents |-> NoChallenge]
  /\ turnTimers = NoTimer
  /\ delays = 0
  /\ moveHandlers = << >>
  /\ gameEndHandlers = << >>
  /\ ratingUpdates = << >>
  /\ gameEnds = 0
  /\ lastEvent = Quiet("listen", Undefined, "none")

Init ==
  /\ ServerStarted
  /\ gameState = NoGame
  /\ applied = 0
  /\ MatchmakerStarted

\* activeChallenges.delete(agentId)
ConsumeChallenge(challenges, agentId) == [challenges EXCEPT ![agentId] = NoChallenge]

\* TimeoutCommand with an action name processMove does not know
TimeoutCommandPass == Command("PASS", NoSector, 0, Undefined)

\* the command handleTurnTimeout resolves for the stalled agent
TimeoutCommand == SkipCommand

\* startMatchBetween(agent1Id, agent2Id, ws1, ws2), called by the matchmaker
startMatchBetween ==
  /\ gameState = NoGame
  /\ \E seed \in 0..(NumGridSeeds - 1), now \in Clock :
       LET state == initMatch(Agent1, Agent2, seed)
       IN /\ gameState' = state
          /\ activeMatches' = activeMatches \cup {state.id}
          \* firstChallenge is replaced by the challenge of startTurnTimer
          /\ activeChallenges' = IssuedChallenges(activeChallenges, state.currentPlayer, state, now)
          /\ turnTimers' = ArmedTimer(state.currentPlayer, delays, state)
  /\ lastEvent' = Event("startMatchBetween", Agent1, "GAME_START", "MATCH_STARTED", "none",
                        "not-called")
  /\ UNCHANGED driverVars
  /\ UNCHANGED <<delays, moveHandlers, gameEndHandlers, ratingUpdates, gameEnds>>

\* handleMove(ws, agentId, message) up to its first await, as a function of
\* the server state and the message: the message sent back, whether
\* verifyProof ran and what it returned, whether processMove ran and what it
\* returned, and the activeChallenges and gameState it leaves
Outcome(reply, verified, pm, challenges, state) ==
  [reply |-> reply, verified |-> verified, processMove |-> pm,
   activeChallenges |-> challenges, gameState |-> state]

MoveOutcome(agentId, message) ==
  LET challenge == activeChallenges[agentId]
      consumed == ConsumeChallenge(activeChallenges, agentId)
  IN IF message.matchId = Undefined \/ message.move = NoMove
       THEN Outcome("ERROR: matchId and move required", "not-run", "not-called",
                    activeChallenges, gameState)
     ELSE IF challenge = NoChallenge \/ challenge.matchId # message.matchId
       THEN Outcome("ERROR: No active challenge", "not-run", "not-called",
                    activeChallenges, gameState)
     ELSE IF message.nonce.type # "number"
       THEN Outcome("MOVE_REJECTED: PROOF_OF_WORK_REQUIRED", "not-run", "not-called",
                    activeChallenges, gameState)
     ELSE IF ~verifyProof(challenge.prefix, challenge.difficulty, message.nonce)
       THEN Outcome("MOVE_REJECTED: PROOF_OF_WORK_INVALID", "rejected", "not-called",
                    activeChallenges, gameState)
     ELSE IF message.monologue < 10
       THEN Outcome("ERROR: Monologue required", "accepted", "not-called", consumed, gameState)
     ELSE IF message.matchId \notin activeMatches
       THEN Outcome("ERROR: Match not found", "accepted", "not-called", consumed, gameState)
     ELSE LET result == processMove(gameState, agentId, message.move, HandlerTime(gameState))
          IN IF ~result.success
               THEN Outcome("MOVE_REJECTED: " \o result.error, "accepted", "failure",
                            consumed, gameState)
               ELSE Outcome("none", "accepted", "success", consumed, result.state)

\* lastEvent records the handler steps that write server state; a message
\* rejected before the challenge is consumed writes nothing
handleMove(agentId, message) ==
  LET outcome == MoveOutcome(agentId, message)
  IN /\ activeChallenges' = outcome.activeChallenges
     /\ gameState' = outcome.gameState
     \* await supabase.from('agent_thoughts').insert(...)
     /\ moveHandlers' = IF outcome.processMove = "success"
                          THEN Append(moveHandlers, agentId) ELSE moveHandlers
     /\ lastEvent' = IF outcome.verified = "accepted"
                       THEN Event("handleMove", agentId, outcome.reply, "none",
                                  IF outcome.processMove = "success" THEN "agent" ELSE "none",
                                  outcome.processMove)
                       ELSE lastEvent
     /\ UNCHANGED driverVars
     /\ UNCHANGED <<activeMatches, turnTimers, delays, gameEndHandlers, ratingUpdates,
                    gameEnds>>

RemoveAt(seq, i) == SubSeq(seq, 1, i - 1) \o SubSeq(seq, i + 1, Len(seq))

\* handleMove resumes after its two awaits, the agent_thoughts insert and
\* the game_logs insert (nothing but the second insert happens between
\* them): notices, then either handleGameEnd (up to its first await) or the
\* inter-turn delay
moveActionLogged(i) ==
  /\ i \in 1..Len(moveHandlers)
  /\ moveHandlers' = RemoveAt(moveHandlers, i)
  /\ IF gameState.status = "complete"
       THEN /\ gameEndHandlers' = Append(gameEndHandlers, "matches")
            /\ UNCHANGED delays
       ELSE /\ delays' = delays + 1
            /\ UNCHANGED gameEndHandlers
  /\ lastEvent' = Event("handleMove resumed", moveHandlers[i], "MOVE_ACCEPTED", "GAME_UPDATE",
                        "none", "not-called")
  /\ UNCHANGED driverVars
  /\ UNCHANGED <<activeMatches, gameState, activeChallenges, turnTimers, ratingUpdates,
                 gameEnds>>

\* handleGameEnd resumes after the matches update and calls update_match_elo
gameEndMatchUpdated(i) ==
  /\ i \in 1..Len(gameEndHandlers)
  /\ gameEndHandlers[i] = "matches"
  /\ LET loserId == CHOOSE id \in Agents : id # gameState.winner
     IN IF gameState.winner # NoWinner
          THEN /\ ratingUpdates' = Append(ratingUpdates,
                    [winner_id |-> gameState.winner, loser_id |-> loserId])
               /\ gameEndHandlers' = [gameEndHandlers EXCEPT ![i] = "update_match_elo"]
          ELSE /\ UNCHANGED ratingUpdates
               /\ gameEndHandlers' = [gameEndHandlers EXCEPT ![i] = "notify"]
  /\ lastEvent' = Quiet("handleGameEnd", Undefined, "none")
  /\ UNCHANGED driverVars
  /\ UNCHANGED <<activeMatches, gameState, activeChallenges, turnTimers, delays,
                 moveHandlers, gameEnds>>

\* handleGameEnd resumes after update_match_elo: GAME_END notices and clean up
gameEndNotified(i) ==
  /\ i \in 1..Len(gameEndHandlers)
  /\ gameEndHandlers[i] \in {"update_match_elo", "notify"}
  /\ gameEndHandlers' = RemoveAt(gameEndHandlers, i)
  /\ gameEnds' = gameEnds + 1
  /\ activeMatches' = activeMatches \ {gameState.id}
  /\ lastEvent' = Event("handleGameEnd", Undefined, "GAME_END", "MATCH_ENDED", "none",
                        "not-called")
  /\ UNCHANGED driverVars
  /\ UNCHANGED <<gameState, activeChallenges, turnTimers, delays, moveHandlers,
                 ratingUpdates>>

\* the setTimeout callback of handleMove fires
delayElapsed ==
  /\ delays > 0
  /\ delays' = delays - 1
  /\ IF MatchId \in activeMatches /\ gameState.status = "active"
       THEN \E now \in Clock :
              /\ turnTimers' = ArmedTimer(gameState.currentPlayer, delays', gameState)
              /\ activeChallenges' =
                   IssuedChallenges(activeChallenges, gameState.currentPlayer, gameState, now)
              /\ lastEvent' = Quiet("startTurnTimer", gameState.currentPlayer, "YOUR_TURN")
       ELSE /\ turnTimers' = IF turnTimers = NoTimer THEN NoTimer
                             ELSE [turnTimers EXCEPT !.olderDelays = Max(0, @ - 1)]
            /\ lastEvent' = Quiet("delay", Undefined, "none")
            /\ UNCHANGED activeChallenges
  /\ UNCHANGED driverVars
  /\ UNCHANGED <<activeMatches, gameState, moveHandlers, gameEndHandlers, ratingUpdates,
                 gameEnds>>

\* the deadline timer is pending and no callback scheduled before it is
TimerDue == turnTimers # NoTimer /\ turnTimers.olderDelays = 0

\* the deadline timer fires: handleTurnTimeout(matchId, agentId)
handleTurnTimeout ==
  /\ TimerDue
  /\ LET agentId == turnTimers.agentId
     IN IF MatchId \notin activeMatches \/ gameState.status # "active"
          THEN /\ turnTimers' = NoTimer
               /\ lastEvent' = Quiet("handleTurnTimeout", agentId, "none")
               /\ UNCHANGED <<gameState, activeChallenges>>
          ELSE LET result == processMove(gameState, agentId, TimeoutCommand, HandlerTime(gameState))
               IN /\ gameState' = result.state
                  /\ lastEvent' = Event("handleTurnTimeout", agentId, "none",
                                        "TIMEOUT", TIMEOUT_MONOLOGUE,
                                        IF result.success THEN "success" ELSE "failure")
                  /\ IF result.state.status = "active"
                       THEN \E now \in Clock :
                              /\ turnTimers' = ArmedTimer(result.state.currentPlayer, delays,
                                                          result.state)
                              /\ activeChallenges' =
                                   IssuedChallenges(activeChallenges,
                                                    result.state.currentPlayer, result.state, now)
                       ELSE /\ turnTimers' = NoTimer
                            /\ UNCHANGED activeChallenges
  /\ UNCHANGED driverVars
  /\ UNCHANGED <<activeMatches, delays, moveHandlers, gameEndHandlers, ratingUpdates, gameEnds>>

\* handleMatchQueue(ws, agentId): the rejoin branch; without an active match
\* of the agent the request goes to the matchmaker queue
handleMatchQueue(agentId) ==
  /\ IF MatchId \in activeMatches /\ gameState.status = "active"
        /\ agentId \in DOMAIN gameState.players
       THEN IF gameState.currentPlayer = agentId
              THEN \E now \in Clock :
                     /\ activeChallenges' =
                          IssuedChallenges(activeChallenges, agentId, gameState, now)
                     /\ lastEvent' = Quiet("handleMatchQueue", agentId, "YOUR_TURN")
              ELSE UNCHANGED <<activeChallenges, lastEvent>>
       ELSE UNCHANGED <<activeChallenges, lastEvent>>
  /\ UNCHANGED driverVars
  /\ UNCHANGED <<activeMatches, gameState, turnTimers, delays, moveHandlers, gameEndHandlers,
                 ratingUpdates, gameEnds>>

\* ------------------------------------------------------------------------
\* Specifications
\* ------------------------------------------------------------------------
\* room for one more suspended handleMove, one more scheduled delay
HandlerFree == Len(moveHandlers) < MaxInFlight
DelayFree == gameState.status = "complete" \/ delays < MaxDelays

Next ==
  \/ startMatchBetween
  \/ \E agentId \in Agents, message \in Messages :
       HandlerFree /\ handleMove(agentId, message)
  \/ \E i \in 1..MaxInFlight : DelayFree /\ moveActionLogged(i)
  \/ \E i \in 1..MaxInFlight : gameEndMatchUpdated(i)
  \/ \E i \in 1..MaxInFlight : gameEndNotified(i)
  \/ delayElapsed
  \/ handleTurnTimeout
  \/ \E agentId \in Agents : handleMatchQueue(agentId)

Spec == Init /\ [][Next]_vars

\* Node fires every pending timer: the delay callbacks and the deadline
\* timer. The second condition is WF_vars(handleTurnTimeout) with
\* ENABLED <<handleTurnTimeout>>_vars written out: every handleTurnTimeout
\* step changes turnTimers, so the action is enabled exactly when TimerDue.
SpecLive ==
  /\ Spec
  /\ WF_vars(delayElapsed)
  /\ ([]<>~TimerDue) \/ ([]<><<handleTurnTimeout>>_vars)

\* the guard of handleTurnTimeout is its enabling condition
TimerDueIsEnabled == TimerDue <=> ENABLED <<handleTurnTimeout>>_vars

TypeOK ==
  /\ activeMatches \subseteq {MatchId}
  /\ delays \in 0..MaxDelays
  /\ Len(moveHandlers) <= MaxInFlight

\* ------------------------------------------------------------------------
\* The engine on its own: processMove applied to the states of the scripted
\* games
\* ------------------------------------------------------------------------
Conquer(row, col, halves) == Command("CONQUER", sectorId(row, col), halves, Undefined)
Purge(row, col) == Command("PURGE", sectorId(row, col), 0, Undefined)
Fortify(row, col) == Command("FORTIFY", sectorId(row, col), 0, Undefined)
Mercy(row, col) == Command("MERCY", sectorId(row, col), 0, Undefined)
Research(techId) == Command("RESEARCH", NoSector, 0, techId)

\* A game in which both agents purge their corner, agent1 takes the north
\* west and agent2 the south east until they meet, agent1 researches
\* SANCTUARY and grants it to sector (1,2), agent2 captures that sector and
\* then tries to purge it.  The commands alternate, agent1 first.
Opening ==
  << Purge(0, 0),      Purge(3, 5),
     Conquer(0, 1, 0), Conquer(3, 4, 0),
     Conquer(1, 1, 0), Conquer(2, 4, 0),
     Conquer(1, 2, 0), Conquer(2, 3, 0),
     Conquer(0, 2, 0), Conquer(2, 2, 0),
     Conquer(1, 0, 0), SkipCommand,
     Conquer(2, 1, 0), SkipCommand,
     Research("SANCTUARY"), SkipCommand,
     Mercy(1, 2),      Conquer(1, 2, 2 * NumDen),
     SkipCommand,      Purge(1, 2) >>

\* A game of the same length in which both agents only pass: agent1 is
\* bankrupt after its ninth pass
Passes == [k \in 1..Len(Opening) |-> SkipCommand]

\* A game in which agent1 wears the defense of sector (1,1) down with attacks
\* of intensity -1 and 1/2 (the second one meets the defense power exactly)
\* and then captures it, while agent2 takes and purges a neighbour of its
\* corner, takes three more sectors and researches EFFICIENCY, which leaves
\* it in deficit with its corner still populated.
Skirmish ==
  << Conquer(1, 1, -NumDen), Conquer(2, 5, 0),
     Conquer(1, 1, -NumDen), Purge(2, 5),
     Conquer(1, 1, 1),       Conquer(2, 4, 0),
     Conquer(1, 1, -NumDen), Conquer(3, 4, 0),
     Conquer(1, 1, 0),       Conquer(2, 3, 0),
     Fortify(1, 1),          Research("EFFICIENCY"),
     SkipCommand >>

Scripts == {Opening, Passes, Skirmish}

\* the state after the first k commands of a script, each submitted by the
\* agent whose turn it is and logged at time k
RECURSIVE Replay(_, _, _)
Replay(state, script, k) ==
  IF k = 0 THEN state
  ELSE LET before == Replay(state, script, k - 1)
       IN processMove(before, before.currentPlayer, script[k], k).state

\* Date.now() inside a processMove call made directly
LogTimes == 0..(NumLogTimes - 1)

\* the commands submitted to the engine: every action on the sectors the
\* scripts fight over and on a sector off the grid, attacks of intensity
\* 1 (absent), 2, 1/2 and -1, three known and an unknown technology, a pass
\* and an unknown action
EngineTargets == {sectorId(0, 0), sectorId(0, 1), sectorId(1, 2), sectorId(3, 5), NoSector}
EngineCommands ==
  {Command("CONQUER", s, i, Undefined) : s \in EngineTargets, i \in {0, 2 * NumDen, 1, -NumDen}}
    \cup {Command(a, s, 0, Undefined) : a \in {"PURGE", "FORTIFY", "MERCY"}, s \in EngineTargets}
    \cup {Research(t) : t \in {"SANCTUARY", "FORTIFICATION", "BLITZ", "WARP"}}
    \cup {SkipCommand, Command("DANCE", NoSector, 0, Undefined)}

InitEngine ==
  /\ \E seed \in 0..(NumGridSeeds - 1), script \in Scripts :
       \E k \in 0..Len(script) :
         gameState = Replay(initMatch(Agent1, Agent2, seed), script, k)
  /\ applied = 0
  /\ ServerStarted
  /\ MatchmakerStarted

\* one call processMove(state, agentId, command) on the match state
applyMove ==
  /\ applied < MaxApplied
  /\ \E agentId \in Agents, command \in EngineCommands, now \in LogTimes :
       gameState' = processMove(gameState, agentId, command, now).state
  /\ applied' = applied + 1
  /\ UNCHANGED <<serverVars, matchmakerVars>>

NextEngine == applyMove

SpecEngine == InitEngine /\ [][NextEngine]_vars

\* ------------------------------------------------------------------------
\* The engine late in a long game
\* ------------------------------------------------------------------------
\* agent2's moves in a game it plays for the compute threshold: it purges its
\* corner, takes fifteen sectors and purges seven of them to pay for it, waits
\* while the compute of its sixteen sectors adds up, spends its energy on one
\* attack of intensity 90 and passes twice in deficit
AgentTwoMoves ==
  << Purge(3, 5),      Conquer(2, 5, 0), Conquer(3, 4, 0), Conquer(2, 4, 0),
     Conquer(3, 3, 0), Conquer(2, 3, 0), Conquer(1, 5, 0), Conquer(1, 4, 0),
     Conquer(3, 2, 0), Conquer(2, 2, 0), Purge(2, 4),      Conquer(1, 3, 0),
     Conquer(0, 5, 0), Conquer(0, 4, 0), Conquer(3, 1, 0), Conquer(2, 1, 0),
     Purge(3, 1),      Conquer(1, 2, 0), Purge(1, 5),      Purge(2, 2),
     Purge(2, 3),      Purge(1, 4),      Purge(2, 1) >>
    \o [j \in 1..37 |-> SkipCommand]
    \o << Conquer(0, 3, 90 * NumDen), SkipCommand, SkipCommand >>

\* the game: agent1 purges its corner and passes from then on, agent2 plays
\* AgentTwoMoves
LongGame ==
  [k \in 1..(2 * Len(AgentTwoMoves)) |->
     IF k % 2 = 0 THEN AgentTwoMoves[k \div 2]
     ELSE IF k = 1 THEN Purge(0, 0)
     ELSE SkipCommand]

\* the state after the commands lo .. hi of a script, each submitted by the
\* agent whose turn it is and logged at its position in the script: Replay,
\* computed by halves, the first half before the second (no match state has
\* the status "none")
RECURSIVE ReplayRange(_, _, _, _)
ReplayRange(state, script, lo, hi) ==
  IF lo > hi THEN state
  ELSE IF lo = hi THEN processMove(state, state.currentPlayer, script[lo], lo).state
  ELSE LET mid == (lo + hi) \div 2
           half == ReplayRange(state, script, lo, mid)
       IN IF half.status = "none" THEN state ELSE ReplayRange(half, script, mid + 1, hi)

\* the match is in one of the last states of the long game
InitLateGame ==
  /\ \E k \in (Len(LongGame) - LatePrefixes)..Len(LongGame) :
       gameState = ReplayRange(initMatch(Agent1, Agent2, 0), LongGame, 1, k)
  /\ applied = 0
  /\ ServerStarted
  /\ MatchmakerStarted

SpecLateGame == InitLateGame /\ [][NextEngine]_vars

\* ------------------------------------------------------------------------
\* The engine on a match of the asynchronous matchmaker
\* ------------------------------------------------------------------------
\* createAsyncMatch: initMatch(agent1.id, agent2.id), then
\* gameState.currentPlayer = firstPlayer, picked by Math.random() < 0.5
AsyncMatchState(agent1Id, agent2Id, seed, firstPlayer) ==
  [initMatch(agent1Id, agent2Id, seed) EXCEPT !.currentPlayer = firstPlayer]

InitAsyncMatch ==
  /\ \E seed \in 0..(NumGridSeeds - 1), script \in Scripts, firstPlayer \in Agents :
       \E k \in 0..Len(script) :
         gameState = Replay(AsyncMatchState(Agent1, Agent2, seed, firstPlayer), script, k)
  /\ applied = 0
  /\ ServerStarted
  /\ MatchmakerStarted

SpecAsyncMatch == InitAsyncMatch /\ [][NextEngine]_vars

\* the engine on the states of all the scripted games, early and late
InitAnyGame == InitEngine \/ InitLateGame
SpecAnyGame == InitAnyGame /\ [][NextEngine]_vars

\* ------------------------------------------------------------------------
\* Matchmaker (matchmaker.js) and the server code around it
\* ------------------------------------------------------------------------
INITIAL_SEARCH_RANGE == 100
RANGE_EXPANSION_RATE == 50
MAX_SEARCH_RANGE == 500

Min(a, b) == IF a <= b THEN a ELSE b
Abs(x) == IF x < 0 THEN -x ELSE x

\* agent?.elo_rating || 1000
EloOf(agentId) ==
  IF AgentsTable[agentId].elo_rating = 0 THEN 1000 ELSE AgentsTable[agentId].elo_rating

\* the row addToQueue inserts
NewRow(agentId, id, now) ==
  [id |-> id, agent_id |-> agentId, elo_rating |-> EloOf(agentId), status |-> "waiting",
   queued_at |-> now, search_range |-> INITIAL_SEARCH_RANGE]

\* delete().in('agent_id', agentIds)
DeleteRows(queue, agentIds) == [a \in Queuers |-> IF a \in agentIds THEN NoRow ELSE queue[a]]

\* the agents of a match and of the matches a pass has still to create
PlayersOf(match) == {match.player1.agent_id, match.player2.agent_id}
PendingMatches(pass) ==
  IF pass.pc \in {"create", "announced"}
    THEN {pass.matches[k] : k \in pass.next..Len(pass.matches)}
    ELSE {}
Paired(agentId) ==
  \E p \in PassSlots : \E m \in PendingMatches(runs[p]) : agentId \in PlayersOf(m)

\* handleAgentRegister: agentConnections.set(agent.id, ws)
handleAgentRegister(agentId) ==
  /\ agentId \notin agentConnections
  /\ agentConnections' = agentConnections \cup {agentId}
  /\ UNCHANGED <<matchQueue, rowsInserted, clock, runs, inMatches, leftQueue,
                 lookingForMatch>>
  /\ UNCHANGED <<gameState, serverVars, applied>>

\* handleMatchQueue of an agent that is in no active match:
\* matchmaker.addToQueue(agentId) deletes the row of the agent and inserts a
\* new one
addToQueue(agentId) ==
  /\ agentId \in agentConnections
  /\ inMatches[agentId] = 0
  /\ rowsInserted < MaxQueued
  /\ rowsInserted' = rowsInserted + 1
  /\ matchQueue' = [matchQueue EXCEPT ![agentId] = NewRow(agentId, rowsInserted + 1, clock)]
  /\ leftQueue' = leftQueue \ {agentId}
  /\ UNCHANGED <<agentConnections, clock, runs, inMatches, lookingForMatch>>
  /\ UNCHANGED <<gameState, serverVars, applied>>

\* a close handler that also clears the deadline timer of the match
wsCloseClearsTimer(agentId) ==
  /\ agentId \in agentConnections
  /\ agentConnections' = agentConnections \ {agentId}
  /\ matchQueue' = DeleteRows(matchQueue, {agentId})
  /\ leftQueue' = IF matchQueue[agentId].status = "waiting" /\ ~Paired(agentId)
                    THEN leftQueue \cup {agentId} ELSE leftQueue
  /\ turnTimers' = NoTimer
  /\ UNCHANGED <<rowsInserted, clock, runs, inMatches, lookingForMatch>>
  /\ UNCHANGED <<gameState, activeMatches, activeChallenges, delays, moveHandlers,
                 gameEndHandlers, ratingUpdates, gameEnds, lastEvent, applied>>

\* ws.on('close'): agentConnections.delete(agentId), then
\* matchmaker.removeFromQueue(agentId)
wsClose(agentId) ==
  /\ agentId \in agentConnections
  /\ agentConnections' = agentConnections \ {agentId}
  /\ matchQueue' = DeleteRows(matchQueue, {agentId})
  /\ leftQueue' = IF matchQueue[agentId].status = "waiting" /\ ~Paired(agentId)
                    THEN leftQueue \cup {agentId} ELSE leftQueue
  /\ UNCHANGED <<rowsInserted, clock, runs, inMatches, lookingForMatch>>
  /\ UNCHANGED <<gameState, serverVars, applied>>

\* ten seconds pass
tenSeconds ==
  /\ clock < MaxClock
  /\ clock' = clock + 1
  /\ UNCHANGED <<agentConnections, matchQueue, rowsInserted, runs, inMatches, leftQueue,
                 lookingForMatch>>
  /\ UNCHANGED <<gameState, serverVars, applied>>

\* .order('queued_at'): rows queued in the same period in the order of insertion
RECURSIVE OrderByQueuedAt(_)
OrderByQueuedAt(rows) ==
  IF rows = {} THEN << >>
  ELSE LET first == CHOOSE r \in rows :
                      \A o \in rows :
                        \/ r.queued_at < o.queued_at
                        \/ r.queued_at = o.queued_at /\ r.id <= o.id
       IN <<first>> \o OrderByQueuedAt(rows \ {first})

\* Math.min(INITIAL_SEARCH_RANGE + Math.floor(waitSeconds / 10) * RANGE_EXPANSION_RATE,
\*          MAX_SEARCH_RANGE)
NewRange(row, now) ==
  Min(INITIAL_SEARCH_RANGE + (now - row.queued_at) * RANGE_EXPANSION_RATE, MAX_SEARCH_RANGE)

EloDiff(p1, p2) == Abs(p1.elo_rating - p2.elo_rating)

\* the inner loop of runMatchmaking: the indices j > i of the unmatched
\* agents within both search ranges
Candidates(waiting, i, matched) ==
  {j \in (i + 1)..Len(waiting) :
     /\ waiting[j].agent_id \notin matched
     /\ EloDiff(waiting[i], waiting[j]) <= waiting[i].search_range
     /\ EloDiff(waiting[i], waiting[j]) <= waiting[j].search_range}

\* BestMatch with the last candidate on ties (eloDiff <= bestEloDiff)
BestMatchLast(waiting, i, candidates) ==
  CHOOSE j \in candidates :
    \A o \in candidates :
      \/ EloDiff(waiting[i], waiting[j]) < EloDiff(waiting[i], waiting[o])
      \/ EloDiff(waiting[i], waiting[j]) = EloDiff(waiting[i], waiting[o]) /\ j >= o

\* the first candidate with the smallest difference (eloDiff < bestEloDiff)
BestMatch(waiting, i, candidates) ==
  CHOOSE j \in candidates :
    \A o \in candidates :
      \/ EloDiff(waiting[i], waiting[j]) < EloDiff(waiting[i], waiting[o])
      \/ EloDiff(waiting[i], waiting[j]) = EloDiff(waiting[i], waiting[o]) /\ j <= o

\* the outer loop of runMatchmaking from index i on
RECURSIVE FindMatches(_, _, _)
FindMatches(waiting, i, matched) ==
  IF i > Len(waiting) THEN << >>
  ELSE IF waiting[i].agent_id \in matched \/ Candidates(waiting, i, matched) = {}
    THEN FindMatches(waiting, i + 1, matched)
  ELSE LET j == BestMatch(waiting, i, Candidates(waiting, i, matched))
       IN <<[player1 |-> waiting[i], player2 |-> waiting[j],
             eloDiff |-> EloDiff(waiting[i], waiting[j])]>>
            \o FindMatches(waiting, i + 1,
                            matched \cup {waiting[i].agent_id, waiting[j].agent_id})

\* runMatchmaking up to the answer of its select: the waiting rows
runMatchmakingSelect(p) ==
  /\ runs[p].pc = "idle"
  \* a new call takes the first free slot
  /\ \A q \in PassSlots : q < p => runs[q].pc # "idle"
  /\ LET rows == {matchQueue[a] : a \in {q \in Queuers : matchQueue[q].status = "waiting"}}
     IN runs' = [runs EXCEPT ![p] =
                     IF Cardinality(rows) < 2 THEN IdlePass
                     ELSE [IdlePass EXCEPT !.pc = "selected",
                                           !.waiting = OrderByQueuedAt(rows)]]
  /\ UNCHANGED <<agentConnections, matchQueue, rowsInserted, clock, inMatches, leftQueue,
                 lookingForMatch>>
  /\ UNCHANGED <<gameState, serverVars, applied>>

\* runMatchmaking from the answer of its select to the first createMatch:
\* the search ranges are expanded in the rows read and in the table (the
\* updates are awaited one by one; they are taken together here), then the
\* matches are found among the rows read
runMatchmakingPair(p) ==
  /\ runs[p].pc = "selected"
  /\ LET waiting == runs[p].waiting
         expanded == [k \in 1..Len(waiting) |->
                        [waiting[k] EXCEPT !.search_range = NewRange(waiting[k], clock)]]
         matches == FindMatches(expanded, 1, {})
     IN /\ matchQueue' =
             [a \in Queuers |->
                IF \E k \in 1..Len(waiting) :
                     /\ waiting[k].id = matchQueue[a].id
                     /\ expanded[k].search_range # waiting[k].search_range
                  THEN [matchQueue[a] EXCEPT !.search_range = NewRange(matchQueue[a], clock)]
                  ELSE matchQueue[a]]
        /\ runs' = [runs EXCEPT ![p] =
                        IF matches = << >> THEN IdlePass
                        ELSE [IdlePass EXCEPT !.pc = "create", !.matches = matches,
                                              !.next = 1]]
  /\ UNCHANGED <<agentConnections, rowsInserted, clock, inMatches, leftQueue,
                 lookingForMatch>>
  /\ UNCHANGED <<gameState, serverVars, applied>>

\* the pass after createMatch has returned for its current match
Advance(pass) ==
  IF pass.next < Len(pass.matches) THEN [pass EXCEPT !.pc = "create", !.next = @ + 1]
  ELSE IdlePass

\* update({ status: 'matching' }).in('agent_id', agentIds)
MarkMatching(queue, agentIds) ==
  [a \in Queuers |->
     IF a \in agentIds /\ queue[a] # NoRow THEN [queue[a] EXCEPT !.status = "matching"]
     ELSE queue[a]]

\* createMatch(p1, p2, eloDiff) up to the delay of the onMatchFound
\* callback: both rows are marked; if a socket is missing the callback
\* returns and createMatch deletes both rows
createMatch(p) ==
  /\ runs[p].pc = "create"
  /\ LET players == PlayersOf(runs[p].matches[runs[p].next])
     IN IF players \subseteq agentConnections
          THEN /\ matchQueue' = MarkMatching(matchQueue, players)
               /\ runs' = [runs EXCEPT ![p].pc = "announced"]
          ELSE /\ matchQueue' = DeleteRows(matchQueue, players)
               /\ runs' = [runs EXCEPT ![p] = Advance(@)]
  /\ UNCHANGED <<agentConnections, rowsInserted, clock, inMatches, leftQueue,
                 lookingForMatch>>
  /\ UNCHANGED <<gameState, serverVars, applied>>

\* the callback resumes after its 5000 ms: startMatchBetween(agent1Id,
\* agent2Id, ws1, ws2), then createMatch deletes both rows
createMatchResumed(p) ==
  /\ runs[p].pc = "announced"
  /\ LET players == PlayersOf(runs[p].matches[runs[p].next])
     IN /\ inMatches' = [a \in Queuers |->
                           IF a \in players THEN inMatches[a] + 1 ELSE inMatches[a]]
        /\ matchQueue' = DeleteRows(matchQueue, players)
  /\ runs' = [runs EXCEPT ![p] = Advance(@)]
  /\ UNCHANGED <<agentConnections, rowsInserted, clock, leftQueue, lookingForMatch>>
  /\ UNCHANGED <<gameState, serverVars, applied>>

NextMatchmaker ==
  \/ \E agentId \in Queuers : handleAgentRegister(agentId)
  \/ \E agentId \in Queuers : addToQueue(agentId)
  \/ \E agentId \in Queuers : wsClose(agentId)
  \/ tenSeconds
  \/ \E p \in PassSlots : runMatchmakingSelect(p)
  \/ \E p \in PassSlots : runMatchmakingPair(p)
  \/ \E p \in PassSlots : createMatch(p)
  \/ \E p \in PassSlots : createMatchResumed(p)

SpecMatchmaker == Init /\ [][NextMatchmaker]_vars

\* ------------------------------------------------------------------------
\* Matchmaker v1 with the search_range updates of a pass awaited one by one
\* ------------------------------------------------------------------------
\* the first row from index k on whose search_range the loop of
\* runMatchmaking updates (newRange !== agent.search_range), 0 if there is none
RowToUpdate(waiting, k, now) ==
  LET stale == {j \in k..Len(waiting) : NewRange(waiting[j], now) # waiting[j].search_range}
  IN IF stale = {} THEN 0 ELSE CHOOSE j \in stale : \A o \in stale : j <= o

\* the pass once its rows are expanded: the pairing loop
PassPaired(expanded) ==
  LET matches == FindMatches(expanded, 1, {})
  IN IF matches = << >> THEN IdlePass
     ELSE [IdlePass EXCEPT !.pc = "create", !.matches = matches, !.next = 1]

\* runMatchmaking from the answer of its select to its first await:
\* now = Date.now(), and the update of the first row whose range changes is
\* requested; with no such row the pass goes on to the pairing loop
runMatchmakingNow(p) ==
  /\ runs[p].pc = "selected"
  /\ LET first == RowToUpdate(runs[p].waiting, 1, clock)
     IN runs' = [runs EXCEPT ![p] =
                    IF first = 0 THEN PassPaired(runs[p].waiting)
                    ELSE [@ EXCEPT !.pc = "expand", !.next = first, !.now = clock]]
  /\ UNCHANGED <<agentConnections, matchQueue, rowsInserted, clock, inMatches, leftQueue,
                 lookingForMatch>>
  /\ UNCHANGED <<gameState, serverVars, applied>>

\* the awaited update({ search_range: newRange }).eq('id', agent.id) is
\* applied and returns; agent.search_range = newRange; the loop goes on to
\* the next row whose range changes, or the pass to the pairing loop
runMatchmakingUpdated(p) ==
  /\ runs[p].pc = "expand"
  /\ LET pass == runs[p]
         row == pass.waiting[pass.next]
         newRange == NewRange(row, pass.now)
         waiting == [pass.waiting EXCEPT ![pass.next].search_range = newRange]
         following == RowToUpdate(waiting, pass.next + 1, pass.now)
     IN /\ matchQueue' =
             [a \in Queuers |->
                IF matchQueue[a].status # "none" /\ matchQueue[a].id = row.id
                  THEN [matchQueue[a] EXCEPT !.search_range = newRange]
                  ELSE matchQueue[a]]
        /\ runs' = [runs EXCEPT ![p] =
                       IF following = 0 THEN PassPaired(waiting)
                       ELSE [@ EXCEPT !.waiting = waiting, !.next = following]]
  /\ UNCHANGED <<agentConnections, rowsInserted, clock, inMatches, leftQueue,
                 lookingForMatch>>
  /\ UNCHANGED <<gameState, serverVars, applied>>

\* agent1 and agent3 joined the queue ten seconds ago; the passes run since
\* found nothing to update and nobody to pair
InitRanges ==
  /\ ServerStarted
  /\ gameState = NoGame
  /\ applied = 0
  /\ agentConnections = Queuers
  /\ matchQueue = [a \in Queuers |->
                     CASE a = Agent1 -> NewRow(Agent1, 1, -1)
                       [] a = Agent3 -> NewRow(Agent3, 2, -1)
                       [] OTHER -> NoRow]
  /\ rowsInserted = 2
  /\ clock = 0
  /\ runs = [p \in PassSlots |-> IdlePass]
  /\ inMatches = [a \in Queuers |-> 0]
  /\ leftQueue = {}
  /\ lookingForMatch = {}

NextRanges ==
  \/ \E agentId \in Queuers : handleAgentRegister(agentId)
  \/ \E agentId \in Queuers : addToQueue(agentId)
  \/ \E agentId \in Queuers : wsClose(agentId)
  \/ tenSeconds
  \/ \E p \in PassSlots : runMatchmakingSelect(p)
  \/ \E p \in PassSlots : runMatchmakingNow(p)
  \/ \E p \in PassSlots : runMatchmakingUpdated(p)
  \/ \E p \in PassSlots : createMatch(p)
  \/ \E p \in PassSlots : createMatchResumed(p)

SpecRanges == InitRanges /\ [][NextRanges]_vars

\* ------------------------------------------------------------------------
\* The pairing loop of runMatchmaking on its own
\* ------------------------------------------------------------------------
\* the agents of the rows a select may return, in the order of the rows
WaitingAgents == <<Agent1, Agent2, Agent3, "agent4", "agent5", "agent6">>
\* their ratings and (expanded) search ranges
WaitingElos == {1000, 1050, 1100, 1200}
WaitingRanges == {INITIAL_SEARCH_RANGE, INITIAL_SEARCH_RANGE + RANGE_EXPANSION_RATE}

\* the lists of up to MaxWaiting rows ordered by queued_at
WaitingLists ==
  UNION {[1..n -> WaitingElos \X WaitingRanges] : n \in 0..MaxWaiting}
WaitingRows(list) ==
  [k \in 1..Len(list) |->
     [id |-> k, agent_id |-> WaitingAgents[k], elo_rating |-> list[k][1],
      status |-> "waiting", queued_at |-> k, search_range |-> list[k][2]]]

InitPairing ==
  /\ ServerStarted
  /\ gameState = NoGame
  /\ applied = 0
  /\ agentConnections = {}
  /\ matchQueue = [a \in Queuers |-> NoRow]
  /\ rowsInserted = 0
  /\ clock = 0
  /\ \E list \in WaitingLists :
       runs = [p \in PassSlots |->
                 IF p = 1 THEN [IdlePass EXCEPT !.pc = "selected", !.waiting = WaitingRows(list)]
                 ELSE IdlePass]
  /\ inMatches = [a \in Queuers |-> 0]
  /\ leftQueue = {}
  /\ lookingForMatch = {}

\* the pairing loop applied to the rows of the pass (which are kept)
pairingLoop ==
  /\ runs[1].pc = "selected"
  /\ runs' = [runs EXCEPT ![1] = [PassPaired(runs[1].waiting) EXCEPT
                                     !.waiting = runs[1].waiting]]
  /\ UNCHANGED <<agentConnections, matchQueue, rowsInserted, clock, inMatches, leftQueue,
                 lookingForMatch>>
  /\ UNCHANGED <<gameState, serverVars, applied>>

NextPairing == pairingLoop

SpecPairing == InitPairing /\ [][NextPairing]_vars

\* ------------------------------------------------------------------------
\* The turn controller with connections that register and close
\* ------------------------------------------------------------------------
\* The matchmaker's callback starts a match only between agents it finds in
\* agentConnections; MOVE and QUEUE messages arrive on the connection an
\* agent has registered on.
Connected(agentId) == agentId \in agentConnections

NextClose ==
  \/ \E agentId \in Agents : handleAgentRegister(agentId)
  \/ \E agentId \in Agents : wsClose(agentId)
  \/ Agents \subseteq agentConnections /\ startMatchBetween
  \/ \E agentId \in Agents, message \in Messages :
       Connected(agentId) /\ HandlerFree /\ handleMove(agentId, message)
  \/ \E i \in 1..MaxInFlight : DelayFree /\ moveActionLogged(i)
  \/ \E i \in 1..MaxInFlight : gameEndMatchUpdated(i)
  \/ \E i \in 1..MaxInFlight : gameEndNotified(i)
  \/ delayElapsed
  \/ handleTurnTimeout
  \/ \E agentId \in Agents : Connected(agentId) /\ handleMatchQueue(agentId)

SpecClose == Init /\ [][NextClose]_vars

\* Node fires every pending timer, as in SpecLive
SpecCloseLive ==
  /\ SpecClose
  /\ WF_vars(delayElapsed)
  /\ ([]<>~TimerDue) \/ ([]<><<handleTurnTimeout>>_vars)

\* ------------------------------------------------------------------------
\* Matchmaker v2 (async): agents.looking_for_match, match_queue kept for
\* backward compatibility
\* ------------------------------------------------------------------------
\* joinQueue(agentId): the flag is set, the row of the agent is replaced
joinQueue(agentId) ==
  /\ rowsInserted < MaxQueued
  /\ rowsInserted' = rowsInserted + 1
  /\ lookingForMatch' = lookingForMatch \cup {agentId}
  /\ matchQueue' = [matchQueue EXCEPT ![agentId] = NewRow(agentId, rowsInserted + 1, clock)]
  /\ UNCHANGED <<agentConnections, clock, runs, inMatches, leftQueue>>
  /\ UNCHANGED <<gameState, serverVars, applied>>

\* leaveQueue(agentId)
leaveQueue(agentId) ==
  /\ agentId \in lookingForMatch
  /\ lookingForMatch' = lookingForMatch \ {agentId}
  /\ matchQueue' = DeleteRows(matchQueue, {agentId})
  /\ UNCHANGED <<agentConnections, rowsInserted, clock, runs, inMatches, leftQueue>>
  /\ UNCHANGED <<gameState, serverVars, applied>>

\* runMatchmaking of v2 up to createAsyncMatch: the select has no order, so
\* waiting[0] and waiting[1] are any two of the agents looking for a match.
\* The players are carried as their queue rows.
runMatchmakingV2(p) ==
  /\ runs[p].pc = "idle"
  /\ \A q \in PassSlots : q < p => runs[q].pc # "idle"
  /\ \E agent1 \in lookingForMatch, agent2 \in lookingForMatch :
       /\ agent1 # agent2
       /\ runs' = [runs EXCEPT ![p] =
                     [IdlePass EXCEPT
                        !.pc = "creating",
                        !.matches = <<[player1 |-> matchQueue[agent1],
                                       player2 |-> matchQueue[agent2],
                                       eloDiff |-> EloDiff(matchQueue[agent1],
                                                           matchQueue[agent2])]>>,
                        !.next = 1]]
  /\ UNCHANGED <<agentConnections, matchQueue, rowsInserted, clock, inMatches, leftQueue,
                 lookingForMatch>>
  /\ UNCHANGED <<gameState, serverVars, applied>>

\* createAsyncMatch(agent1, agent2): the match is inserted, the flags are
\* cleared, the rows are deleted
createAsyncMatch(p) ==
  /\ runs[p].pc = "creating"
  /\ LET players == PlayersOf(runs[p].matches[1])
     IN /\ inMatches' = [a \in Queuers |->
                           IF a \in players THEN inMatches[a] + 1 ELSE inMatches[a]]
        /\ lookingForMatch' = lookingForMatch \ players
        /\ matchQueue' = DeleteRows(matchQueue, players)
  /\ runs' = [runs EXCEPT ![p] = IdlePass]
  /\ UNCHANGED <<agentConnections, rowsInserted, clock, leftQueue>>
  /\ UNCHANGED <<gameState, serverVars, applied>>

NextMatchmakerV2 ==
  \/ \E agentId \in Queuers : joinQueue(agentId)
  \/ \E agentId \in Queuers : leaveQueue(agentId)
  \/ tenSeconds
  \/ \E p \in PassSlots : runMatchmakingV2(p)
  \/ \E p \in PassSlots : createAsyncMatch(p)

SpecMatchmakerV2 == Init /\ [][NextMatchmakerV2]_vars

\* ------------------------------------------------------------------------
\* Properties
\* ------------------------------------------------------------------------
Opponent(agentId) == CHOOSE other \in Agents : other # agentId

\* a move of the timer's agent was resolved after the timer was armed
MovedSinceArmed(timer, state) ==
  \E i \in (timer.armedAtLog + 1)..Len(state.log) : state.log[i].agentId = timer.agentId

\* the nonce is a non-negative integer whose hash has the required zeros
NonceSolves(challenge, nonce) ==
  /\ nonce.type = "number"
  /\ nonce.value % NumDen = 0
  /\ nonce.value >= 0
  /\ LeadingZeros(challenge.prefix, nonce.value \div NumDen) >= challenge.difficulty

\* C1: once handleMove has run verifyProof against a challenge,
\* whether it accepted or rejected the nonce, the challenge is no longer
\* outstanding.
C1_ConsumedOnAnyAttempt ==
  \A a \in Agents, m \in Messages :
    MoveOutcome(a, m).verified # "not-run" => MoveOutcome(a, m).activeChallenges[a] = NoChallenge

\* C2: every change of the match state is one successful processMove, of a
\* verified submission or of a forced SKIP, made for the agent whose turn it
\* is; it appends exactly one entry to state.log and ends that turn, so that
\* the other trigger of the same turn fails.
C2_ExactlyOnce ==
  [][gameState # NoGame =>
       /\ (gameState' # gameState) <=> (Len(gameState'.log) = Len(gameState.log) + 1)
       /\ gameState' # gameState =>
            /\ SubSeq(gameState'.log, 1, Len(gameState.log)) = gameState.log
            /\ gameState.status = "active"
            /\ lastEvent'.op \in {"handleMove", "handleTurnTimeout"}
            /\ lastEvent'.processMove = "success"
            /\ lastEvent'.agentId = gameState.currentPlayer
            /\ gameState'.log[Len(gameState'.log)].agentId = gameState.currentPlayer
            /\ gameState'.currentPlayer # gameState.currentPlayer]_vars

\* the deadline timer fired after the agent's submission resolved the turn,
\* and its SKIP failed
C2_Witness ==
  /\ lastEvent.op = "handleTurnTimeout"
  /\ lastEvent.processMove = "failure"
  /\ Len(gameState.log) > 0
  /\ gameState.log[Len(gameState.log)].agentId = lastEvent.agentId

\* C3: when the deadline timer fires, a forced SKIP is resolved for its agent
\* only if no move of that agent has been resolved since the timer was armed.
C3_TimerActsOnItsTurn ==
  [][(lastEvent'.op = "handleTurnTimeout" /\ lastEvent'.processMove = "success")
       => ~MovedSinceArmed(turnTimers, gameState)]_vars

\* C4: the deadline timer never fires for an agent whose submission has been
\* resolved since the timer was armed.
C4_SubmissionCancelsTimer ==
  [][lastEvent'.op = "handleTurnTimeout" => ~MovedSinceArmed(turnTimers, gameState)]_vars

\* C5: once the forced pass of a timed-out agent has been resolved, that
\* agent has no outstanding challenge.
C5_TimeoutConsumesChallenge ==
  [][(lastEvent'.op = "handleTurnTimeout" /\ lastEvent'.processMove = "success")
       => activeChallenges'[lastEvent'.agentId] = NoChallenge]_vars

\* C6: a submission reaches processMove only if the agent has an outstanding
\* challenge of the submitted match and the nonce is a non-negative integer
\* that solves it; every other submission leaves the match state unchanged.
C6_GateBeforeResolver ==
  \A a \in Agents, m \in Messages :
    LET outcome == MoveOutcome(a, m)
        challenge == activeChallenges[a]
        passes == /\ challenge # NoChallenge
                  /\ challenge.matchId = m.matchId
                  /\ NonceSolves(challenge, m.nonce)
    IN /\ outcome.processMove # "not-called" => passes
       /\ ~passes => outcome.gameState = gameState
       /\ outcome.processMove # "success" => outcome.gameState = gameState

\* a verified submission was resolved by processMove
C6_Witness ==
  /\ lastEvent.op = "handleMove"
  /\ lastEvent.processMove = "success"
  /\ Len(gameState.log) > 0

\* C7: currentPlayer changes exactly when an action is resolved, and then to
\* the other agent; the resolved action is the current player's, so no agent
\* has two consecutive entries in state.log.
C7_Alternation ==
  [][gameState # NoGame =>
       IF gameState'.log # gameState.log
         THEN /\ gameState'.currentPlayer = Opponent(gameState.currentPlayer)
              /\ gameState'.log[Len(gameState'.log)].agentId = gameState.currentPlayer
              /\ Len(gameState.log) > 0 =>
                   gameState.log[Len(gameState.log)].agentId # gameState.currentPlayer
         ELSE gameState'.currentPlayer = gameState.currentPlayer]_vars

\* three actions were resolved, the last one a forced SKIP
C7_Witness ==
  /\ Len(gameState.log) >= 3
  /\ lastEvent.op = "handleTurnTimeout"
  /\ lastEvent.processMove = "success"

\* C8: when the deadline timer fires for an agent that has not moved since it
\* was armed, a SKIP of that agent is resolved by the processMove pipeline
\* (upkeep, log, victory check, turn switch), the step is announced as TIMEOUT
\* with the timeout monologue, and if the match is still active the opponent
\* gets a challenge and the new deadline timer.
C8_ForcedSkip ==
  [][(/\ lastEvent'.op = "handleTurnTimeout"
      /\ MatchId \in activeMatches
      /\ gameState.status = "active"
      /\ ~MovedSinceArmed(turnTimers, gameState))
       => LET a == turnTimers.agentId
          IN /\ gameState' = ResolveTurn(gameState, a, SkipCommand, "skipped",
                                          HandlerTime(gameState))
             /\ gameState'.log = Append(gameState.log,
                  [turn |-> gameState.turn, agentId |-> a, action |-> "SKIP",
                   targetSector |-> NoSector, intensity |-> 0, result |-> "skipped",
                   timestamp |-> HandlerTime(gameState)])
             /\ gameState'.currentPlayer = Opponent(a)
             /\ lastEvent' = Event("handleTurnTimeout", a, "none", "TIMEOUT",
                                   TIMEOUT_MONOLOGUE, "success")
             /\ gameState'.status = "active" =>
                  /\ turnTimers' # NoTimer
                  /\ turnTimers'.agentId = Opponent(a)
                  /\ activeChallenges'[Opponent(a)] # NoChallenge
                  /\ activeChallenges'[Opponent(a)].matchId = MatchId]_vars

\* a forced SKIP was resolved and the match goes on
C8_Witness ==
  /\ lastEvent.op = "handleTurnTimeout"
  /\ lastEvent.processMove = "success"
  /\ gameState.status = "active"
  /\ turnTimers.agentId = gameState.currentPlayer

\* C9: an active match always has a pending deadline timer or a scheduled
\* timer start, and with the timers firing every active match becomes
\* complete, whether or not any submission is accepted.
C9_NeverStuck ==
  /\ [](gameState.status = "active" => (turnTimers # NoTimer \/ delays > 0))
  /\ (gameState.status = "active") ~> (gameState.status = "complete")

\* a match completed by a forced SKIP
C9_Witness ==
  /\ gameState.status = "complete"
  /\ lastEvent.op = "handleTurnTimeout"

\* C10: the end-of-match processing and the rating update happen at most
\* once, and exactly once for a completed match whose handlers have all
\* returned.
C10_GameEndOnce ==
  /\ gameEnds <= 1
  /\ Len(ratingUpdates) <= 1
  /\ (gameState.status = "complete" /\ moveHandlers = << >> /\ gameEndHandlers = << >>) =>
       /\ gameEnds = 1
       /\ ratingUpdates = << [winner_id |-> gameState.winner,
                              loser_id |-> Opponent(gameState.winner)] >>
       /\ MatchId \notin activeMatches

\* ------------------------------------------------------------------------
\* Properties of the engine
\* ------------------------------------------------------------------------
\* C11: in every state of a match the winner is set exactly when the status
\* is complete, and while the status is active currentPlayer is one of the
\* two participants of the match.
C11_WinnerIffComplete ==
  /\ (gameState.winner # NoWinner) <=> (gameState.status = "complete")
  /\ gameState.status \in {"active", "complete"}
  /\ gameState.status = "active" =>
       /\ Cardinality(DOMAIN gameState.players) = 2
       /\ gameState.currentPlayer \in DOMAIN gameState.players

\* a processMove call has completed the match: agent1 is bankrupt, agent2 wins
C11_Witness ==
  /\ applied > 0
  /\ gameState.status = "complete"
  /\ gameState.winner = Agent2
  /\ gameState.players[Agent1].bankruptTurns >= BANKRUPTCY_TURNS

\* the errors with which processMove rejects some command of some agent
Errors(state) ==
  {processMove(state, agentId, command, 0).error :
     agentId \in Agents, command \in EngineCommands}

\* C12: a processMove call that returns success: false leaves the whole
\* match state as it was: grid, players (energy, compute, bankruptTurns,
\* tech), turn, currentPlayer, status, winner and log.
C12_FailureLeavesState ==
  \A agentId \in Agents, command \in EngineCommands, now \in LogTimes :
    LET r == processMove(gameState, agentId, command, now)
    IN ~r.success => r.state = gameState

\* after a processMove call, a state of an active match in which commands
\* fail for the wrong turn, an unknown action, no adjacent owned sector,
\* insufficient energy and an illegal target
C12_Witness ==
  /\ applied > 0
  /\ gameState.status = "active"
  /\ {"Not your turn", "Invalid action", "No adjacent controlled territory",
      "Insufficient energy", "Cannot attack own sector", "Invalid sector"}
       \subseteq Errors(gameState)

\* C13: in every state, a PURGE against a sector with sanctuary = true fails
\* for either agent and leaves the population of the sector as it was,
\* whoever owns the sector by then.
C13_SanctuaryNeverPurged ==
  \A s \in Sectors :
    gameState.grid[s].sanctuary =>
      \A agentId \in Agents :
        /\ ~executePurge(gameState, agentId, s).success
        /\ \A now \in LogTimes :
             LET r == processMove(gameState, agentId, Command("PURGE", s, 0, Undefined), now)
             IN /\ ~r.success
                /\ r.state.grid[s].population = gameState.grid[s].population

\* a populated sector that agent1 made a sanctuary and agent2 has captured
\* since, in a state where it is agent2's turn
C13_Witness ==
  /\ applied > 0
  /\ gameState.status = "active"
  /\ gameState.currentPlayer = Agent2
  /\ \E s \in Sectors :
       /\ gameState.grid[s].sanctuary
       /\ gameState.grid[s].owner = Agent2
       /\ gameState.grid[s].population > 0
       /\ \E i \in 1..Len(gameState.log) :
            /\ gameState.log[i].action = "MERCY"
            /\ gameState.log[i].agentId = Agent1
            /\ gameState.log[i].targetSector = s
       /\ executePurge(gameState, Agent2, s).error = "Cannot purge sanctuary sector"

\* C14: a sector whose sanctuary flag a MERCY has set keeps it: every sector
\* a logged MERCY targeted is a sanctuary, and no processMove call clears the
\* flag of a sector, the capture of the sector by the opponent included.
C14_SanctuaryPermanent ==
  /\ [](\A i \in 1..Len(gameState.log) :
          gameState.log[i].action = "MERCY" =>
            gameState.grid[gameState.log[i].targetSector].sanctuary)
  /\ [][\A s \in Sectors : gameState.grid[s].sanctuary => gameState'.grid[s].sanctuary]_vars

\* the last processMove call was agent2's capture of a sector that agent1
\* had made a sanctuary
C14_Witness ==
  /\ applied > 0
  /\ Len(gameState.log) > 1
  /\ LET last == gameState.log[Len(gameState.log)]
         granted == gameState.log[Len(gameState.log) - 1]
     IN /\ last.action = "CONQUER"
        /\ last.agentId = Agent2
        /\ last.result = "captured"
        /\ granted.action = "MERCY"
        /\ granted.agentId = Agent1
        /\ granted.targetSector = last.targetSector
        /\ gameState.grid[last.targetSector].owner = Agent2
        /\ gameState.grid[last.targetSector].sanctuary

\* C19 as claimed: two processMove calls with the same state, agent and
\* command return the same result and the same state, log included.
C19_Deterministic ==
  \A agentId \in Agents, command \in EngineCommands, now1 \in LogTimes, now2 \in LogTimes :
    processMove(gameState, agentId, command, now1)
      = processMove(gameState, agentId, command, now2)

\* two match states that differ at most in the timestamp of their last log
\* entry
SameButTimestamp(s1, s2) ==
  /\ [s1 EXCEPT !.log = << >>] = [s2 EXCEPT !.log = << >>]
  /\ Len(s1.log) = Len(s2.log)
  /\ \A i \in 1..Len(s1.log) :
       IF i < Len(s1.log) THEN s1.log[i] = s2.log[i]
       ELSE [s1.log[i] EXCEPT !.timestamp = 0] = [s2.log[i] EXCEPT !.timestamp = 0]

\* C19: two processMove calls with the same state, agent and command return
\* the same success, error and result and the same grid, players, turn,
\* currentPlayer, status and winner; their logs are the same except for the
\* timestamp of the entry the call appends.
C19_DeterministicButTimestamp ==
  \A agentId \in Agents, command \in EngineCommands, now1 \in LogTimes, now2 \in LogTimes :
    LET r1 == processMove(gameState, agentId, command, now1)
        r2 == processMove(gameState, agentId, command, now2)
    IN /\ r1.success = r2.success
       /\ r1.error = r2.error
       /\ r1.result = r2.result
       /\ SameButTimestamp(r1.state, r2.state)

\* after a processMove call, a state in which the current player's attack
\* captures a sector and the two states returned for two clock values differ
C19_Witness ==
  /\ applied > 0
  /\ \E command \in EngineCommands, now1 \in LogTimes, now2 \in LogTimes :
       LET r1 == processMove(gameState, gameState.currentPlayer, command, now1)
           r2 == processMove(gameState, gameState.currentPlayer, command, now2)
       IN /\ command.action = "CONQUER"
          /\ r1.result = "captured"
          /\ r1.state # r2.state
          /\ r1.state.grid = r2.state.grid
          /\ r1.state.grid # gameState.grid

\* the log entries of an agent
EntriesOf(log, agentId) == {i \in 1..Len(log) : log[i].agentId = agentId}
OnlyPasses(log) == \A i \in 1..Len(log) : log[i].action = "SKIP"

\* C20: when an agent that owns exactly one sector, of population p with
\* p * UPKEEP_PER_MILLION > SECTOR_YIELD, passes, its energy falls by
\* p * UPKEEP_PER_MILLION - SECTOR_YIELD; in a game of passes only, each agent
\* has lost 2 * 10 - 5 = 15 energy for each of its turns.
C20_EconomicTrap ==
  /\ [](OnlyPasses(gameState.log) =>
          \A a \in Agents :
            gameState.players[a].energy
              = STARTING_ENERGY
                  - Cardinality(EntriesOf(gameState.log, a)) * (10 * UPKEEP_PER_MILLION
                                                                 - SECTOR_YIELD))
  /\ [][\A a \in Agents, s \in Sectors :
          (/\ Len(gameState'.log) = Len(gameState.log) + 1
           /\ gameState'.log[Len(gameState'.log)].action = "SKIP"
           /\ gameState'.log[Len(gameState'.log)].agentId = a
           /\ OwnedSectors(gameState.grid, a) = {s}
           /\ gameState.grid[s].population * UPKEEP_PER_MILLION > SECTOR_YIELD)
            => /\ gameState'.players[a].energy
                    = gameState.players[a].energy
                        - (gameState.grid[s].population * UPKEEP_PER_MILLION - SECTOR_YIELD)
               /\ gameState'.players[a].energy < gameState.players[a].energy]_vars

\* agent1, owner of one sector, has just passed in a game of passes only and
\* its energy has fallen below zero
C20_Witness ==
  /\ applied > 0
  /\ OnlyPasses(gameState.log)
  /\ Len(gameState.log) > 0
  /\ gameState.log[Len(gameState.log)].agentId = Agent1
  /\ Cardinality(OwnedSectors(gameState.grid, Agent1)) = 1
  /\ gameState.players[Agent1].energy < 0

\* the intensities a client submits with an attack, in units of 1 / NumDen:
\* absent (or 0), 1/2, 1, 3/2, 2, -1/2 and -1
Intensities == {0, 1, NumDen, NumDen + 1, 2 * NumDen, -1, -NumDen}

\* intensity || 1, the argument processMove passes to executeConquer
EffectiveIntensity(command) == IF command.intensity = 0 THEN NumDen ELSE command.intensity

\* every attack a client can submit: any sector of the grid or a sector off
\* the grid, with any of the intensities
AttackCommands ==
  {Command("CONQUER", s, i, Undefined) : s \in Sectors \cup {NoSector}, i \in Intensities}

\* C21: a CONQUER that is resolved captures the target exactly when
\* intensity * 15 + adjacentOwnedCount * 3 > defense + population * 0.5; on a
\* capture the attacker owns the target, the population of the target is
\* floor(population * 0.7) and the attacker has 10 compute more; otherwise
\* owner and population of the target are as before and the attacker's compute
\* is as before; in both cases the attacker's energy is lower by the cost.
C21_AttackResolution ==
  \A agentId \in Agents, command \in AttackCommands :
    LET intensity == EffectiveIntensity(command)
        target == command.targetSector
        r == executeConquer(gameState, agentId, target, intensity)
    IN r.success =>
         LET before == gameState.grid[target]
             after == r.state.grid[target]
             actor == gameState.players[agentId]
             adjacentOwnedCount == countAdjacentOwned(target, agentId, gameState.grid)
             \* both sides of the comparison times 2 * NumDen
             stronger == 2 * intensity * 15 + 2 * NumDen * adjacentOwnedCount * 3
                           > 2 * NumDen * before.defense + NumDen * before.population
             cost == ConquerCost(intensity, "BLITZ" \in actor.tech)
         IN /\ r.result \in {"captured", "repelled"}
            /\ (r.result = "captured") <=> stronger
            /\ stronger =>
                 /\ after.owner = agentId
                 /\ after.population = (before.population * 7) \div 10
                 /\ r.state.players[agentId].compute = actor.compute + 10
            /\ ~stronger =>
                 /\ after.owner = before.owner
                 /\ after.population = before.population
                 /\ r.state.players[agentId].compute = actor.compute
            /\ r.state.players[agentId].energy = actor.energy - cost
            /\ \A now \in LogTimes :
                 (gameState.currentPlayer = agentId /\ gameState.status = "active") =>
                   processMove(gameState, agentId, command, now).result = r.result

\* agent1's attack of intensity 1/2 met the defense power of sector (1,1)
\* exactly and was repelled, and the last processMove call was a capture
C21_Witness ==
  /\ applied > 0
  /\ Len(gameState.log) > 0
  /\ gameState.log[Len(gameState.log)].action = "CONQUER"
  /\ gameState.log[Len(gameState.log)].result = "captured"
  /\ \E k \in 1..Len(gameState.log) :
       /\ gameState.log[k].action = "CONQUER"
       /\ gameState.log[k].intensity = 1
       /\ gameState.log[k].result = "repelled"
       /\ LET past == Replay(initMatch(Agent1, Agent2, 0), Skirmish, k - 1)
              target == gameState.log[k].targetSector
          IN /\ k - 1 <= Len(Skirmish)
             /\ past.log = SubSeq(gameState.log, 1, k - 1)
             /\ 2 * 15 + 2 * NumDen * countAdjacentOwned(target, Agent1, past.grid) * 3
                  = 2 * NumDen * past.grid[target].defense + NumDen * past.grid[target].population


\* C22: for every intensity a client can submit, a CONQUER is either rejected
\* with the state unchanged, or it is resolved with an intensity of at least 1
\* and leaves the attacker's energy (after the deduction, before upkeep)
\* strictly lower than before, by COST_CONQUER_BASE * intensity times the
\* BLITZ multiplier when BLITZ is unlocked.
C22_AttackCostsEnergy ==
  \A agentId \in Agents, command \in AttackCommands :
    LET intensity == EffectiveIntensity(command)
        r == executeConquer(gameState, agentId, command.targetSector, intensity)
        actor == gameState.players[agentId]
        paid == actor.energy - r.state.players[agentId].energy
    IN IF ~r.success
         THEN r.state = gameState
         ELSE /\ intensity >= NumDen
              /\ paid > 0
              /\ IF "BLITZ" \in actor.tech
                   THEN paid * NumDen * BLITZ_COST_MULTIPLIER[2]
                          = COST_CONQUER_BASE * intensity * BLITZ_COST_MULTIPLIER[1]
                   ELSE paid * NumDen = COST_CONQUER_BASE * intensity


\* C23: a resolved attack never raises the defense of its target: after a
\* capture and after a repelled attack the defense of the target sector is at
\* most what it was before the attack.
C23_DefenseNeverRaised ==
  \A agentId \in Agents, command \in AttackCommands :
    LET target == command.targetSector
        r == executeConquer(gameState, agentId, target, EffectiveIntensity(command))
    IN r.success => r.state.grid[target].defense <= gameState.grid[target].defense


\* C24: PURGE succeeds exactly when the target sector exists, is owned by the
\* caller, has population above zero and is not a sanctuary; a PURGE that
\* succeeds adds population * 50 to the caller's energy, leaves the sector
\* with population 0 and changes the caller's compute by -5, or by -1 when
\* the caller has unlocked EFFICIENCY (all before upkeep), and processMove
\* resolves a PURGE of the player to move in an active match exactly then.
C24_PurgeContract ==
  \A agentId \in Agents, target \in Sectors \cup {NoSector} :
    LET r == executePurge(gameState, agentId, target)
        actor == gameState.players[agentId]
        allowed == /\ target \in DOMAIN gameState.grid
                   /\ gameState.grid[target].owner = agentId
                   /\ gameState.grid[target].population > 0
                   /\ ~gameState.grid[target].sanctuary
    IN /\ r.success <=> allowed
       /\ r.success =>
            /\ r.state.players[agentId].energy
                 = actor.energy + gameState.grid[target].population * 50
            /\ r.state.grid[target].population = 0
            /\ r.state.players[agentId].compute
                 = actor.compute + (IF "EFFICIENCY" \in actor.tech THEN -1 ELSE -5)
       /\ (gameState.currentPlayer = agentId /\ gameState.status = "active") =>
            \A now \in LogTimes :
              processMove(gameState, agentId, Command("PURGE", target, 0, Undefined), now).success
                <=> allowed

\* the state at the end of the Skirmish game
SkirmishEnd == Replay(initMatch(Agent1, Agent2, 0), Skirmish, Len(Skirmish))

\* the last processMove call was a PURGE of its populated corner by agent2,
\* which had unlocked EFFICIENCY: the sector is empty and agent2's compute has
\* changed by -1 and the upkeep
C24_Witness ==
  /\ applied > 0
  /\ Len(gameState.log) = Len(Skirmish) + 1
  /\ gameState.log[Len(gameState.log)].result = "purged"
  /\ "EFFICIENCY" \in SkirmishEnd.players[Agent2].tech
  /\ SkirmishEnd.grid[sectorId(3, 5)].population > 0
  /\ \E now \in LogTimes :
       gameState = processMove(SkirmishEnd, Agent2, Purge(3, 5), now).state
  /\ gameState.grid[sectorId(3, 5)].population = 0
  /\ gameState.players[Agent2].compute
       = SkirmishEnd.players[Agent2].compute - 1
           + Cardinality(OwnedSectors(SkirmishEnd.grid, Agent2))


\* the techId values a client submits: the four technologies, a name that is
\* no technology, an inherited object key and an absent techId
TechIdValues == TechIds \cup {"WARP", "constructor", Undefined}

\* C25: RESEARCH succeeds exactly when techId is one of EFFICIENCY,
\* FORTIFICATION, BLITZ and SANCTUARY, the actor has not unlocked it and the
\* actor's compute is at least its cost; it then deducts that cost, marks the
\* technology unlocked and changes nothing else; in every other case it fails
\* and the state is as before.
C25_ResearchContract ==
  \A agentId \in Agents, techId \in TechIdValues :
    LET r == executeResearch(gameState, agentId, techId)
        actor == gameState.players[agentId]
        allowed == /\ techId \in {"EFFICIENCY", "FORTIFICATION", "BLITZ", "SANCTUARY"}
                   /\ techId \notin actor.tech
                   /\ actor.compute >= TECH_TREE[techId].cost
    IN /\ r.success <=> allowed
       /\ r.success =>
            r.state = [gameState EXCEPT
                         !.players[agentId].compute = @ - TECH_TREE[techId].cost,
                         !.players[agentId].tech = @ \cup {techId}]
       /\ ~r.success => r.state = gameState
       /\ (gameState.currentPlayer = agentId /\ gameState.status = "active") =>
            \A now \in LogTimes :
              LET pm == processMove(gameState, agentId, Research(techId), now)
              IN /\ pm.success <=> allowed
                 /\ ~pm.success => pm.state = gameState

\* the last processMove call was a RESEARCH that unlocked a technology for
\* its actor; researching it again fails as already researched, and another
\* technology fails for insufficient compute
C25_Witness ==
  /\ applied > 0
  /\ Len(gameState.log) > 0
  /\ gameState.log[Len(gameState.log)].action = "RESEARCH"
  /\ gameState.log[Len(gameState.log)].result = "researched"
  /\ \E techId \in TechIds, other \in TechIds :
       /\ techId \in gameState.players[gameState.log[Len(gameState.log)].agentId].tech
       /\ executeResearch(gameState, gameState.log[Len(gameState.log)].agentId, techId).error
            = "Tech already researched"
       /\ executeResearch(gameState, gameState.log[Len(gameState.log)].agentId, other).error
            = "Insufficient compute"


\* C26: MERCY succeeds exactly when the actor has unlocked SANCTUARY and the
\* target is a sector the actor owns, not yet a sanctuary, with population
\* above zero; it then sets the sanctuary flag of the target, adds 10 to the
\* actor's compute and changes nothing else; in every other case it fails and
\* the state is as before.
C26_MercyContract ==
  \A agentId \in Agents, target \in Sectors \cup {NoSector} :
    LET r == executeMercy(gameState, agentId, target)
        allowed == /\ "SANCTUARY" \in gameState.players[agentId].tech
                   /\ target \in DOMAIN gameState.grid
                   /\ gameState.grid[target].owner = agentId
                   /\ ~gameState.grid[target].sanctuary
                   /\ gameState.grid[target].population > 0
    IN /\ r.success <=> allowed
       /\ r.success =>
            r.state = [gameState EXCEPT !.grid[target].sanctuary = TRUE,
                                        !.players[agentId].compute = @ + 10]
       /\ ~r.success => r.state = gameState
       /\ (gameState.currentPlayer = agentId /\ gameState.status = "active") =>
            \A now \in LogTimes :
              LET pm == processMove(gameState, agentId, Command("MERCY", target, 0, Undefined), now)
              IN /\ pm.success <=> allowed
                 /\ ~pm.success => pm.state = gameState

\* the last processMove call was a MERCY that made a populated sector of its
\* actor a sanctuary; a second MERCY on the sector fails, and so does a MERCY
\* of the opponent, which has not unlocked SANCTUARY, on a sector of its own
C26_Witness ==
  /\ applied > 0
  /\ Len(gameState.log) > 0
  /\ gameState.log[Len(gameState.log)].action = "MERCY"
  /\ gameState.log[Len(gameState.log)].result = "mercy_granted"
  /\ gameState.grid[gameState.log[Len(gameState.log)].targetSector].sanctuary
  /\ gameState.grid[gameState.log[Len(gameState.log)].targetSector].population > 0
  /\ executeMercy(gameState, gameState.log[Len(gameState.log)].agentId,
                  gameState.log[Len(gameState.log)].targetSector).error
       = "Sector already has sanctuary status"
  /\ \E s \in Sectors :
       /\ gameState.grid[s].owner = gameState.currentPlayer
       /\ gameState.grid[s].population > 0
       /\ executeMercy(gameState, gameState.currentPlayer, s).error
            = "MERCY requires SANCTUARY tech"


\* the action of a command alone: the switch of processMove without the
\* checks in front of it and the steps after it
ActionOf(state, agentId, command) ==
  CASE command.action = "CONQUER" ->
         executeConquer(state, agentId, command.targetSector, EffectiveIntensity(command))
    [] command.action = "PURGE" -> executePurge(state, agentId, command.targetSector)
    [] command.action = "FORTIFY" -> executeFortify(state, agentId, command.targetSector)
    [] command.action = "RESEARCH" -> executeResearch(state, agentId, command.techId)
    [] command.action = "MERCY" -> executeMercy(state, agentId, command.targetSector)
    [] command.action = "SKIP" -> Ok(state, "skipped")
    [] OTHER -> Fail(state, "Invalid action")

\* C27: a processMove call applies upkeep exactly when its action succeeds,
\* once and to the agent that moved only: with sectorsOwned and
\* totalPopulation taken over that agent's sectors after the action, its
\* energy changes by 5 * sectorsOwned - 2 * totalPopulation, its compute grows
\* by sectorsOwned, and its bankruptTurns grows by one if the new energy is
\* below zero and is zero otherwise; the other agent and the grid are as the
\* action left them, and a call that fails changes nothing.
C27_UpkeepOncePerAction ==
  \A agentId \in Agents, command \in EngineCommands \cup AttackCommands, now \in LogTimes :
    LET pm == processMove(gameState, agentId, command, now)
        act == ActionOf(gameState, agentId, command)
        moved == act.state.players[agentId]
        owned == {s \in Sectors : act.state.grid[s].owner = agentId}
        sectorsOwned == Cardinality(owned)
        totalPopulation == SumPopulation(act.state.grid, owned)
        energy == moved.energy + 5 * sectorsOwned - 2 * totalPopulation
    IN /\ pm.success <=> /\ gameState.currentPlayer = agentId
                         /\ gameState.status = "active"
                         /\ act.success
       /\ pm.success =>
            /\ pm.state.players[agentId] =
                 [moved EXCEPT !.energy = energy,
                               !.compute = @ + sectorsOwned,
                               !.bankruptTurns = IF energy < 0 THEN @ + 1 ELSE 0]
            /\ pm.state.players[Opponent(agentId)] = gameState.players[Opponent(agentId)]
            /\ pm.state.grid = act.state.grid
       /\ ~pm.success => pm.state = gameState

\* the last processMove call was a pass of agent2 at the end of the Skirmish
\* game: agent2, already in deficit, has paid the upkeep of its five sectors
\* and is in its second bankrupt turn, and a purge of its corner instead would
\* have reset the count
C27_Witness ==
  /\ applied > 0
  /\ Len(gameState.log) = Len(Skirmish) + 1
  /\ gameState.log[Len(gameState.log)].action = "SKIP"
  /\ SkirmishEnd.players[Agent2].bankruptTurns = 1
  /\ \E now \in LogTimes : gameState = processMove(SkirmishEnd, Agent2, SkipCommand, now).state
  /\ gameState.players[Agent2].bankruptTurns = 2
  /\ gameState.players[Agent2].energy
       = SkirmishEnd.players[Agent2].energy
           + 5 * Cardinality(OwnedSectors(SkirmishEnd.grid, Agent2))
           - 2 * SumPopulation(SkirmishEnd.grid, OwnedSectors(SkirmishEnd.grid, Agent2))
  /\ gameState.players[Agent2].energy < SkirmishEnd.players[Agent2].energy
  /\ processMove(SkirmishEnd, Agent2, Purge(3, 5), 0).state.players[Agent2].bankruptTurns = 0


\* C28: after every successful action the victory conditions are checked
\* per participant, agent1 first, in the priority: the participant has
\* reached the compute threshold (it wins), the other participant has at
\* least 3 consecutive deficit turns (the participant wins by elimination),
\* the participant owns at least 75% of the sectors (it wins); the first
\* condition that holds decides winner and reason, and processMove sets the
\* status complete and that winner; when none holds the match stays active.
C28_VictoryPriority ==
  \A agentId \in Agents, command \in EngineCommands, now \in LogTimes :
    LET pm == processMove(gameState, agentId, command, now)
        after == pm.state
        Reached(p) == after.players[p].compute >= 1000
        Eliminated(p) == after.players[p].bankruptTurns >= 3
        Dominates(p) == 4 * Cardinality({s \in Sectors : after.grid[s].owner = p}) >= 3 * 24
        Claimed(p) ==
          IF Reached(p) THEN [winner |-> p, reason |-> "compute_threshold"]
          ELSE IF Eliminated(Opponent(p)) THEN [winner |-> p, reason |-> "opponent_bankrupt"]
          ELSE IF Dominates(p) THEN [winner |-> p, reason |-> "territory_domination"]
          ELSE NoVictory
        claimed == IF Claimed(Agent1) # NoVictory THEN Claimed(Agent1) ELSE Claimed(Agent2)
    IN pm.success =>
         /\ checkVictory(after) = claimed
         /\ IF claimed = NoVictory
              THEN after.status = "active" /\ after.winner = NoWinner
              ELSE after.status = "complete" /\ after.winner = claimed.winner

\* ------------------------------------------------------------------------
\* Properties of the matchmaker
\* ------------------------------------------------------------------------
\* C15: for every pair of queue entries a matchmaking pass has paired, the
\* rating difference is at most the smaller of the search ranges the two
\* entries have in that pass.
C15_PairsWithinRange ==
  \A p \in PassSlots :
    \A k \in 1..Len(runs[p].matches) :
      LET match == runs[p].matches[k]
      IN /\ match.eloDiff = Abs(match.player1.elo_rating - match.player2.elo_rating)
         /\ match.eloDiff <= Min(match.player1.search_range, match.player2.search_range)

\* the number of matches an agent is paired for and not yet placed in
PendingFor(agentId) ==
  Cardinality({pk \in PassSlots \X (1..Cardinality(Queuers)) :
                 /\ runs[pk[1]].pc \in {"create", "announced"}
                 /\ pk[2] \in runs[pk[1]].next..Len(runs[pk[1]].matches)
                 /\ agentId \in PlayersOf(runs[pk[1]].matches[pk[2]])})

\* C16: an agent has at most one queue entry, and whatever passes overlap
\* and whoever queues again, no agent is paired twice or placed in two
\* matches: the matches an agent is in and the pairings it awaits number at
\* most one.
C16_PairedAtMostOnce ==
  \A a \in Queuers :
    /\ matchQueue[a] # NoRow => matchQueue[a].agent_id = a
    /\ inMatches[a] + PendingFor(a) <= 1

\* C17: whenever createMatch has finished for a pair, every agent of the
\* pair whose queue entry it removed has been placed in a match by it,
\* also when the partner has no connection.
C17_RemovedMeansMatched ==
  [][\A p \in PassSlots :
       (runs[p].pc \in {"create", "announced"} /\ runs'[p] = Advance(runs[p])) =>
         \A a \in PlayersOf(runs[p].matches[runs[p].next]) :
           (matchQueue[a] # NoRow /\ matchQueue'[a] = NoRow) =>
             inMatches'[a] = inMatches[a] + 1]_vars

\* C18: an agent that removeFromQueue took out of the queue before it was
\* paired, and that has not queued again, is not paired by any pass.
C18_LeaverNotPaired ==
  \A a \in leftQueue : ~Paired(a) /\ inMatches[a] = 0

\* ------------------------------------------------------------------------
\* Properties of the turn controller: persistence and closed connections
\* ------------------------------------------------------------------------
\* C29: persistence does not block the game.  Whatever becomes of the writes
\* awaited while a resolved move is handled (agent_thoughts and game_logs
\* inserts, matches update, rating update; a write that never completes is a
\* handler that is never resumed), the move is acknowledged to the actor and
\* the opponent, the player to move next gets its challenge and its deadline
\* timer while the match is active, and a match the move completed is
\* finalized (GAME_END sent, the match removed from activeMatches).
C29_PersistenceDoesNotBlock ==
  /\ (Len(moveHandlers) > 0) ~> (lastEvent.op = "handleMove resumed")
  /\ (Len(moveHandlers) > 0 /\ gameState.status = "active")
       ~> (\/ gameState.status # "active"
           \/ /\ turnTimers.agentId = gameState.currentPlayer
              /\ activeChallenges[gameState.currentPlayer] # NoChallenge)
  /\ (Len(moveHandlers) > 0 /\ gameState.status = "complete")
       ~> (MatchId \notin activeMatches)

\* C30: a participant's connection closing during an active match does not
\* cancel or change the match: the close handler leaves the match state, the
\* table of matches, the outstanding challenges and the deadline timer as
\* they are, and a match with a closed participant still runs to its end
\* through the timeouts.
C30_CloseLeavesMatch ==
  /\ [][(\E agentId \in Agents : wsClose(agentId))
          => UNCHANGED <<gameState, activeMatches, activeChallenges, turnTimers>>]_vars
  /\ [](gameState.status = "active" /\ agentConnections # Agents
          => (turnTimers # NoTimer \/ delays > 0))
  /\ (gameState.status = "active" /\ agentConnections # Agents)
       ~> (gameState.status = "complete")

\* both participants have closed and a forced SKIP completed the match
C30_Witness ==
  /\ agentConnections = {}
  /\ gameState.status = "complete"
  /\ lastEvent.op = "handleTurnTimeout"
  /\ lastEvent.processMove = "success"

\* C31: a rejoin issues a fresh challenge.  When a participant of an active
\* match sends QUEUE while it is its turn, a challenge is issued and is the
\* one challenge outstanding for that participant, and no nonce that solved
\* the challenge outstanding before is accepted for it.
C31_RejoinIssuesFresh ==
  [][\A agentId \in Agents :
       ( /\ handleMatchQueue(agentId)
         /\ MatchId \in activeMatches
         /\ gameState.status = "active"
         /\ gameState.currentPlayer = agentId )
       => /\ activeChallenges'[agentId] # NoChallenge
          /\ activeChallenges'[agentId].matchId = MatchId
          /\ \A nonce \in IntegerNonces :
               ( /\ activeChallenges[agentId] # NoChallenge
                 /\ verifyProof(activeChallenges[agentId].prefix,
                                activeChallenges[agentId].difficulty, nonce) )
               => ~verifyProof(activeChallenges'[agentId].prefix,
                               activeChallenges'[agentId].difficulty, nonce)]_vars

\* C32: the round counter.  turn starts at 0 and is incremented only when
\* control returns to the participant who opened the round: in every state
\* of a match turn is the number of resolved actions divided by two, rounded
\* down, whichever participant was chosen to move first.
C32_RoundCounter ==
  gameState.status # "none" => gameState.turn = Len(gameState.log) \div 2

\* C33: the search range.  After each matchmaking pass that considers an
\* entry its search_range is min(100 + 50 * floor(waitSeconds / 10), 500),
\* so the search_range of an entry is always between 100 and 500 and never
\* decreases while the entry stays in the queue.
C33_SearchRange ==
  /\ [][\A p \in PassSlots :
          (runMatchmakingUpdated(p) \/ runMatchmakingNow(p)) /\ runs'[p].pc # "expand"
          => \A k \in 1..Len(runs[p].waiting), a \in Queuers :
               (matchQueue'[a].status # "none" /\ matchQueue'[a].id = runs[p].waiting[k].id)
               => matchQueue'[a].search_range =
                    NewRange(matchQueue'[a],
                             IF runs[p].pc = "expand" THEN runs[p].now ELSE clock)]_vars
  /\ [](\A a \in Queuers :
          matchQueue[a].status # "none"
          => matchQueue[a].search_range \in INITIAL_SEARCH_RANGE..MAX_SEARCH_RANGE)
  /\ [][\A a \in Queuers :
          (matchQueue[a].status # "none" /\ matchQueue'[a].id = matchQueue[a].id)
          => matchQueue'[a].search_range >= matchQueue[a].search_range]_vars

\* the pairs of a pass as C34 describes them, told from the result alone:
\* Taken(i) are the agents of the pairs opened by rows before row i
GreedyPairs(waiting, matches) ==
  LET n == Len(waiting)
      Idx(row) == CHOOSE i \in 1..n : waiting[i].agent_id = row.agent_id
      Taken(i) == UNION {PlayersOf(matches[k]) :
                           k \in {m \in 1..Len(matches) : Idx(matches[m].player1) < i}}
      Open(i) == {j \in (i + 1)..n :
                    /\ waiting[j].agent_id \notin Taken(i)
                    /\ EloDiff(waiting[i], waiting[j]) <= waiting[i].search_range
                    /\ EloDiff(waiting[i], waiting[j]) <= waiting[j].search_range}
      PairsOf(i) == {k \in 1..Len(matches) : matches[k].player1 = waiting[i]}
  IN /\ \A k \in 1..Len(matches) :
          /\ \E i \in 1..n : matches[k].player1 = waiting[i]
          /\ \E j \in 1..n : matches[k].player2 = waiting[j]
     /\ \A k, l \in 1..Len(matches) :
          k < l => Idx(matches[k].player1) < Idx(matches[l].player1)
     /\ \A i \in 1..n :
          IF waiting[i].agent_id \notin Taken(i) /\ Open(i) # {}
            THEN \E k \in PairsOf(i) :
                   LET j == Idx(matches[k].player2)
                   IN /\ j \in Open(i)
                      /\ matches[k].eloDiff = EloDiff(waiting[i], waiting[j])
                      /\ \A o \in Open(i) :
                           \/ EloDiff(waiting[i], waiting[j]) < EloDiff(waiting[i], waiting[o])
                           \/ /\ EloDiff(waiting[i], waiting[j]) = EloDiff(waiting[i], waiting[o])
                              /\ j <= o
            ELSE PairsOf(i) = {}
     /\ \A k \in 1..n :
          Cardinality({m \in 1..Len(matches) : waiting[k].agent_id \in PlayersOf(matches[m])}) <= 1

\* C34: greedy pairing.  Within one pass the entries are visited in wait
\* order; each entry still unmatched is paired with the later, still
\* unmatched entry of smallest rating difference among those within both
\* search ranges (the earliest queued on ties) or is left unpaired if there
\* is none; every participant is in at most one pair of the pass.
C34_GreedyPairing ==
  [][pairingLoop => GreedyPairs(runs[1].waiting, runs'[1].matches)]_vars

\* a pass that paired its first row with the earlier of two rows at the
\* same rating difference and left the third row unpaired, the fourth
\* being out of range
C34_Witness ==
  /\ runs[1].pc = "create"
  /\ Len(runs[1].waiting) = MaxWaiting
  /\ Len(runs[1].matches) = 1
  /\ runs[1].matches[1].player1 = runs[1].waiting[1]
  /\ runs[1].matches[1].player2 = runs[1].waiting[2]
  /\ EloDiff(runs[1].waiting[1], runs[1].waiting[3]) = runs[1].matches[1].eloDiff
  /\ EloDiff(runs[1].waiting[3], runs[1].waiting[4]) > runs[1].waiting[4].search_range

\* getAdjacentSectors of src/server/game/engine.js: its first parameter is
\* named sectorId and hides the function sectorId, so for a sector of the
\* grid the call sectorId(nr, nc) in the first round of the loop is a call
\* of a string and throws a TypeError.  The outcome of a call: what it
\* threw and what it returned.
getAdjacentSectorsOfEngineJs(targetId, grid) ==
  IF targetId \notin DOMAIN grid THEN [thrown |-> "none", adjacent |-> {}]
  ELSE [thrown |-> "TypeError", adjacent |-> {}]

\* the in-bounds cells at the offsets of C35 from (row, col)
HexNeighbours(row, col) ==
  {cell \in (IF row % 2 = 0
               THEN {<<row - 1, col>>, <<row - 1, col + 1>>, <<row, col - 1>>,
                     <<row, col + 1>>, <<row + 1, col>>, <<row + 1, col + 1>>}
               ELSE {<<row - 1, col - 1>>, <<row - 1, col>>, <<row, col - 1>>,
                     <<row, col + 1>>, <<row + 1, col - 1>>, <<row + 1, col>>}) :
     /\ cell[1] \in 0..(GRID_ROWS - 1)
     /\ cell[2] \in 0..(GRID_COLS - 1)}

\* C35: adjacency.  For every cell of the grid getAdjacentSectors (of both
\* copies of the engine) returns exactly the ids of the in-bounds cells at
\* the six offsets of its row parity, and the relation is symmetric.
C35_Adjacency ==
  gameState.status # "none" =>
    \A row \in 0..(GRID_ROWS - 1), col \in 0..(GRID_COLS - 1) :
      /\ getAdjacentSectors(sectorId(row, col), gameState.grid) = HexNeighbours(row, col)
      /\ getAdjacentSectorsOfEngineJs(sectorId(row, col), gameState.grid)
           = [thrown |-> "none", adjacent |-> HexNeighbours(row, col)]
      /\ \A other \in Sectors :
           other \in getAdjacentSectors(sectorId(row, col), gameState.grid)
             <=> sectorId(row, col) \in getAdjacentSectors(other, gameState.grid)

\* it is the turn of the agent, its deadline timer is pending and its
\* challenge is gone: a submission of this turn passed verifyProof and was
\* rejected afterwards
TurnConsumed(agentId) ==
  /\ gameState.status = "active"
  /\ gameState.currentPlayer = agentId
  /\ turnTimers.agentId = agentId
  /\ activeChallenges[agentId] = NoChallenge

\* C36: a submission whose nonce passes verifyProof consumes the challenge
\* of the participant even when it is then rejected (short monologue, failed
\* action); without a challenge no submission of the participant reaches
\* processMove; and after such a rejection only a rejoin of the participant
\* gives it a challenge again in that turn, so that otherwise the turn is
\* resolved by the deadline timer alone.
C36_RejectedAttemptEndsTurn ==
  /\ [](\A agentId \in Agents, message \in Messages :
          LET outcome == MoveOutcome(agentId, message)
          IN /\ (outcome.verified = "accepted" /\ outcome.processMove # "success")
                  => /\ outcome.activeChallenges[agentId] = NoChallenge
                     /\ outcome.gameState = gameState
             /\ activeChallenges[agentId] = NoChallenge
                  => outcome.processMove = "not-called")
  /\ [][\A agentId \in Agents :
          /\ (TurnConsumed(agentId) /\ activeChallenges'[agentId] # NoChallenge)
               => (lastEvent'.op = "handleMatchQueue" /\ lastEvent'.agentId = agentId)
          /\ (TurnConsumed(agentId) /\ gameState' # gameState)
               => lastEvent'.op = "handleTurnTimeout"]_vars

\* C37: completion is absorbing.  Once the status of a match is complete no
\* submission, timer firing or rejoin changes its grid, players, turn,
\* currentPlayer, status, winner or log, and no challenge and no deadline
\* timer is issued for the match.
C37_CompletionAbsorbing ==
  [][gameState.status = "complete" =>
       /\ gameState' = gameState
       /\ \A agentId \in Agents :
            activeChallenges'[agentId] \in {activeChallenges[agentId], NoChallenge}
       /\ turnTimers' # NoTimer =>
            /\ turnTimers # NoTimer
            /\ turnTimers'.agentId = turnTimers.agentId
            /\ turnTimers'.armedAtLog = turnTimers.armedAtLog]_vars

\* the match is complete and a submission that passed verifyProof has been
\* turned down by processMove
C37_Witness ==
  /\ gameState.status = "complete"
  /\ lastEvent.op = "handleMove"
  /\ lastEvent.processMove = "failure"

\* number of sectors that have an owner, and of those a PURGE can still empty
OwnedCount(state, agentId) == Cardinality(OwnedSectors(state.grid, agentId))
Populated(state) == {s \in DOMAIN state.grid : state.grid[s].population > 0}

RECURSIVE TotalCost(_)
TotalCost(techIds) ==
  IF techIds = {} THEN 0
  ELSE LET t == CHOOSE x \in techIds : TRUE
       IN TECH_TREE[t].cost + TotalCost(techIds \ {t})

\* the compute of both players, less what the PURGEs (at most one for each
\* populated sector, 5 each) and the RESEARCHes (each technology once for
\* each player) still to come can remove
ComputeVariant(state) ==
  state.players[Agent1].compute + state.players[Agent2].compute
    - 5 * Cardinality(Populated(state))
    - TotalCost(TechIds \ state.players[Agent1].tech)
    - TotalCost(TechIds \ state.players[Agent2].tech)

\* C38: every match ends after finitely many resolved actions, whatever the
\* actions.  No successful processMove lowers the number of sectors of its
\* agent or of sectors owned at all; each one raises the variant by at least
\* the number of sectors its agent owns; one of the two agents always owns a
\* sector; and in an active match the compute of each agent is below the
\* threshold, so the variant is bounded.  Hence of two successive resolved
\* actions one raises the variant, and only finitely many can follow.
C38_MatchTerminates ==
  /\ [][gameState' # gameState =>
          LET agentId == gameState.currentPlayer
          IN /\ OwnedCount(gameState', agentId) >= OwnedCount(gameState, agentId)
             /\ OwnedCount(gameState', Agent1) + OwnedCount(gameState', Agent2)
                  >= OwnedCount(gameState, Agent1) + OwnedCount(gameState, Agent2)
             /\ ComputeVariant(gameState')
                  >= ComputeVariant(gameState) + OwnedCount(gameState', agentId)
             /\ gameState'.log[Len(gameState'.log)].action \notin {"PURGE", "RESEARCH"}
                  => gameState'.players[agentId].compute
                       >= gameState.players[agentId].compute + OwnedCount(gameState', agentId)]_vars
  /\ [](gameState.status = "active" =>
          /\ OwnedCount(gameState, Agent1) + OwnedCount(gameState, Agent2) >= 1
          /\ \A agentId \in Agents : gameState.players[agentId].compute < WIN_COMPUTE_THRESHOLD
          /\ ComputeVariant(gameState) < 2 * WIN_COMPUTE_THRESHOLD)

\* a match that ended at the compute threshold after PURGEs
C38_Witness ==
  /\ gameState.status = "complete"
  /\ \E agentId \in Agents : gameState.players[agentId].compute >= WIN_COMPUTE_THRESHOLD
  /\ \E k \in 1..Len(gameState.log) : gameState.log[k].action = "PURGE"

\* C39: the population of every sector is a non-negative integer that never
\* increases, and a sector that has an owner never becomes neutral again.
C39_PopulationAndOwnership ==
  /\ [](gameState.status # "none" =>
          \A s \in DOMAIN gameState.grid : gameState.grid[s].population \in Nat)
  /\ [][gameState.status # "none" =>
          \A s \in DOMAIN gameState.grid :
            /\ gameState'.grid[s].population <= gameState.grid[s].population
            /\ gameState.grid[s].owner # NoOwner => gameState'.grid[s].owner # NoOwner]_vars

\* a captured sector that lost population and a purged sector, both owned
C39_Witness ==
  /\ gameState.status # "none"
  /\ \E s \in DOMAIN gameState.grid :
       /\ gameState.grid[s].owner # NoOwner
       /\ gameState.grid[s].population = 0
  /\ \E s \in DOMAIN gameState.grid :
       /\ gameState.grid[s].owner # NoOwner
       /\ gameState.grid[s].population > 0
       /\ gameState.grid[s].population < 5

\* C40: no action changes the record of the other participant.  A
\* successful processMove of an agent leaves the energy, compute,
\* bankruptTurns and tech of its opponent unchanged, and changes no sector
\* of the opponent other than the target of a CONQUER.
C40_OpponentUntouched ==
  [][gameState' # gameState =>
       LET agentId == gameState.currentPlayer
           opponent == Opponent(agentId)
           entry == gameState'.log[Len(gameState'.log)]
       IN /\ entry.agentId = agentId
          /\ gameState'.players[opponent] = gameState.players[opponent]
          /\ \A s \in DOMAIN gameState.grid :
               (gameState.grid[s].owner = opponent /\ gameState'.grid[s] # gameState.grid[s])
                 => (entry.action = "CONQUER" /\ entry.targetSector = s)]_vars

\* agent2 has just captured sector (1,2), which agent1 held and had granted
\* SANCTUARY in the move before
C40_Witness ==
  /\ gameState.status # "none"
  /\ applied = 1
  /\ Len(gameState.log) > 1
  /\ LET entry == gameState.log[Len(gameState.log)]
         before == gameState.log[Len(gameState.log) - 1]
     IN /\ before.agentId = Agent1
        /\ before.action = "MERCY"
        /\ before.targetSector = sectorId(1, 2)
        /\ entry.agentId = Agent2
        /\ entry.action = "CONQUER"
        /\ entry.targetSector = sectorId(1, 2)
        /\ gameState.grid[sectorId(1, 2)].owner = Agent2

====
